---- MODULE Spec2Model ----
(***************************************************************************)
(* Model of the note export transformer of notes-book-snipper              *)
(* (src/src/App.tsx, and the local-storage version src/unnamed/part_000).  *)
(*                                                                         *)
(* A JavaScript string is a sequence of one-character strings, so that     *)
(* escaping and parsing act on characters.  An Arabic letter is written as *)
(* its code point ("U+063A").  A Note is a record with the fields of the   *)
(* Note type; an absent sourceImage is the value Undefined.                *)
(*                                                                         *)
(* SpecExport is the exports over any collection, SpecPage the notes page  *)
(* with its filter and the exports.  Spec is the application: the form,    *)
(* saveNote, loadNote, deleteNote and, in the cloud version, the requests  *)
(* to the backend table with their answers arriving in any order; in the   *)
(* local version the collection kept in localStorage.  There the filter    *)
(* stays at 'الكل', under which loadNote and deleteNote are offered every  *)
(* note.  FairSpec is Spec with a backend that answers the save request.   *)
(* SpecSession is the cloud version on a device two users share,           *)
(* SpecStorage the local version on collections of earlier sessions and on *)
(* broken stored values, SpecOcr the capture panel of the three versions   *)
(* with recognitions that overlap.                                         *)
(***************************************************************************)
EXTENDS Integers, Sequences, FiniteSets, TLC

VARIABLES
    version,     \* "cloud" (src/src/App.tsx), "proxied" (its second copy) or
                 \* "local" (src/unnamed/part_000)
    notes,       \* the notes state of the component
    draft,       \* the form: title, topic, text, sourceImage and draftId
    filter,      \* the topic filter of the notes page
    authUserId,  \* the signed-in user, or Null
    saving,      \* a save request is in flight
    syncError,   \* the last backend error shown, or Null
    table,       \* the rows of the backend table 'notes'
    reqs,        \* the backend requests in flight
    clock,       \* the time of the last save, in seconds
    storage,     \* the text under STORAGE_KEY in localStorage, or Null
    sourceImageFile, \* the image picked last, or Null
    ocrStatus,   \* 'idle', 'loading', 'success' or 'error'
    ocrError,    \* the message of the last failed recognition, or Null
    ocrRuns,     \* the recognitions in flight
    op,          \* the handler, or the backend, that ran last
    out          \* what it produced

\* The capture panel.
scan == <<sourceImageFile, ocrStatus, ocrError>>

\* The form and page state that no export touches.
page == <<draft, filter, authUserId, saving, syncError, scan>>

\* The world outside the component.
world == <<version, table, reqs, clock, storage, ocrRuns>>

vars == <<version, notes, draft, filter, authUserId, saving, syncError,
          table, reqs, clock, storage, sourceImageFile, ocrStatus, ocrError,
          ocrRuns, op, out>>

----------------------------------------------------------------------------
(* Bounds of the model *)

\* Longest collection of the grouping family of inputs.
MaxNotes == 3

\* Longest collection of the character family of inputs.
MaxCsvNotes == 2

\* Longest collection of the page family of inputs.
MaxPageNotes == 3

\* Saves a behaviour of the local version makes; a save takes the next
\* second of the clock.
MaxSaves == 3

\* Saves a behaviour of the cloud version sends.
MaxCloudSaves == 1

\* Backend requests in flight at a time.
MaxInFlight == 2

----------------------------------------------------------------------------
(* Characters and literals of the source *)

NL == <<"\n">>

QUOTE == "\""

BACKSLASH == "\\"

Digits == <<"0", "1", "2", "3", "4", "5", "6", "7", "8", "9">>

\* 'غير مصنف'
FallbackLabel == <<"U+063A", "U+064A", "U+0631", " ", "U+0645", "U+0635", "U+0646", "U+0641">>

\* 'لا توجد فوائد بعد.'
Placeholder == <<"U+0644", "U+0627", " ", "U+062A", "U+0648", "U+062C", "U+062F", " ", "U+0641", "U+0648", "U+0627", "U+0626", "U+062F", " ", "U+0628", "U+0639", "U+062F", ".">>

\* 'title,topic,text,createdAt\n'
CsvHeader == <<"t", "i", "t", "l", "e", ",", "t", "o", "p", "i", "c", ",", "t", "e", "x", "t", ",", "c", "r", "e", "a", "t", "e", "d", "A", "t", "\n">>

\* '-'.repeat(24)
RuleWidth == 24

\* The value of an absent optional field.
Undefined == <<"undefined">>

\* The value null.
Null == <<"null">>

\* 'الكل', the filter that shows every note.
AllFilter == <<"U+0627", "U+0644", "U+0643", "U+0644">>

\* 'مقتطف بلا عنوان', the title given to a note saved without one.
UntitledLabel == <<"U+0645", "U+0642", "U+062A", "U+0637", "U+0641", " ", "U+0628", "U+0644", "U+0627", " ", "U+0639", "U+0646", "U+0648", "U+0627", "U+0646">>

\* The messages of setSyncError; each stands for its Arabic sentence.
LoadFailed == <<"load failed">>

UpdateFailed == <<"update failed">>

InsertFailed == <<"insert failed">>

DeleteFailed == <<"delete failed">>

----------------------------------------------------------------------------
(* Sequence helpers *)

RECURSIVE Join(_, _)
\* Array.prototype.join: the strings of ss with sep between neighbours.
Join(ss, sep) ==
    IF Len(ss) = 0 THEN <<>>
    ELSE IF Len(ss) = 1 THEN ss[1]
    ELSE ss[1] \o sep \o Join(Tail(ss), sep)

RECURSIVE Flat(_)
\* Array.prototype.flatMap's flattening: the concatenation of the sequences of ss.
Flat(ss) == IF Len(ss) = 0 THEN <<>> ELSE ss[1] \o Flat(Tail(ss))

\* String.prototype.repeat
Repeat(c, n) == [i \in 1..n |-> c]

IsDigit(c) == \E d \in 1..10 : Digits[d] = c

DigitVal(c) == (CHOOSE d \in 1..10 : Digits[d] = c) - 1

RECURSIVE DecimalString(_)
\* The decimal rendering of a natural number by a template literal.
DecimalString(n) ==
    IF n < 10 THEN <<Digits[n + 1]>>
    ELSE DecimalString(n \div 10) \o <<Digits[(n % 10) + 1]>>

----------------------------------------------------------------------------
(* Objects used as dictionaries: own keys, inherited keys, key order *)

\* The property names every object literal inherits from Object.prototype.
\* Each is a function or an object: truthy, and not iterable.
ObjectPrototypeKeys ==
    { <<"c", "o", "n", "s", "t", "r", "u", "c", "t", "o", "r">>,
      <<"_", "_", "p", "r", "o", "t", "o", "_", "_">>,
      <<"t", "o", "S", "t", "r", "i", "n", "g">>,
      <<"v", "a", "l", "u", "e", "O", "f">>,
      <<"h", "a", "s", "O", "w", "n", "P", "r", "o", "p", "e", "r", "t", "y">>,
      <<"i", "s", "P", "r", "o", "t", "o", "t", "y", "p", "e", "O", "f">>,
      <<"p", "r", "o", "p", "e", "r", "t", "y", "I", "s", "E", "n", "u", "m", "e", "r", "a", "b", "l", "e">>,
      <<"t", "o", "L", "o", "c", "a", "l", "e", "S", "t", "r", "i", "n", "g">> }

\* 2^32 - 2, the largest array index, digit by digit.
MaxIndexDigits == <<"4", "2", "9", "4", "9", "6", "7", "2", "9", "4">>

\* a <= b for digit strings of the same length.
DigitsLeq(a, b) ==
    \/ a = b
    \/ \E i \in 1..Len(a) :
          /\ \A j \in 1..(i - 1) : a[j] = b[j]
          /\ DigitVal(a[i]) < DigitVal(b[i])

\* A property key is an integer index when it is the canonical decimal
\* rendering of an integer in 0 .. 2^32 - 2.
IsArrayIndex(s) ==
    /\ Len(s) > 0
    /\ \A i \in 1..Len(s) : IsDigit(s[i])
    /\ (s[1] # "0" \/ Len(s) = 1)
    /\ \/ Len(s) < Len(MaxIndexDigits)
       \/ Len(s) = Len(MaxIndexDigits) /\ DigitsLeq(s, MaxIndexDigits)

\* Numeric order of two integer-index keys.
IndexLess(a, b) ==
    \/ Len(a) < Len(b)
    \/ Len(a) = Len(b) /\ a # b /\ DigitsLeq(a, b)

\* {} : no own property.
EmptyObject == [threw |-> FALSE, keys |-> <<>>, items |-> <<>>]

\* The outcome of an evaluation that raised a TypeError.
Threw == [threw |-> TRUE, keys |-> <<>>, items |-> <<>>]

HasOwn(obj, key) == \E i \in 1..Len(obj.keys) : obj.keys[i] = key

OwnIndex(obj, key) == CHOOSE i \in 1..Len(obj.keys) : obj.keys[i] = key

\* The positions of the own keys of obj that are integer indices.
IndexPositions(obj) == {i \in 1..Len(obj.keys) : IsArrayIndex(obj.keys[i])}

RECURSIVE AscendingIndices(_, _)
\* The positions of ps ordered by the numeric value of their keys.
AscendingIndices(obj, ps) ==
    IF ps = {} THEN <<>>
    ELSE LET least == CHOOSE p \in ps :
                          \A q \in ps \ {p} : IndexLess(obj.keys[p], obj.keys[q])
         IN  <<least>> \o AscendingIndices(obj, ps \ {least})

RECURSIVE InsertionOrder(_, _)
\* The positions of 1..n that are not in skip, in increasing position.
InsertionOrder(n, skip) ==
    IF n = 0 THEN <<>>
    ELSE InsertionOrder(n - 1, skip) \o (IF n \in skip THEN <<>> ELSE <<n>>)

\* The own property keys in the order Object.entries and Object.keys list
\* them: integer indices in ascending numeric order, then the other keys in
\* the order they were created.
OwnKeyOrder(obj) ==
    AscendingIndices(obj, IndexPositions(obj))
        \o InsertionOrder(Len(obj.keys), IndexPositions(obj))

\* Object.entries(grouped): the [group, items] pairs.
ObjectEntries(obj) ==
    LET order == OwnKeyOrder(obj)
    IN  [k \in 1..Len(order) |->
            [group |-> obj.keys[order[k]], items |-> obj.items[order[k]]]]

----------------------------------------------------------------------------
(* groupNotes *)

\* A slip of the key: const key = note.topic
GroupKeyNoFallback(note) == note.topic

\* const key = note.topic || 'غير مصنف'
GroupKey(note) == IF note.topic # <<>> THEN note.topic ELSE FallbackLabel

\* A slip of the spread: [note, ...acc[key]]
SpreadPrepend(items, note) == <<note>> \o items

\* [...acc[key], note]
SpreadAppend(items, note) == Append(items, note)

\* acc[key] = acc[key] ? [...acc[key], note] : [note]; return acc
\* acc[key] reads an own property, else a property of Object.prototype,
\* else undefined.  Spreading an inherited value raises a TypeError.
GroupStep(acc, note) ==
    IF acc.threw THEN acc
    ELSE LET key == GroupKey(note)
         IN  IF HasOwn(acc, key)
             THEN [acc EXCEPT !.items[OwnIndex(acc, key)] = SpreadAppend(@, note)]
             ELSE IF key \in ObjectPrototypeKeys
             THEN Threw
             ELSE [acc EXCEPT !.keys = Append(@, key),
                              !.items = Append(@, <<note>>)]

RECURSIVE Reduce(_, _)
\* notes.reduce(step, acc)
Reduce(ns, acc) ==
    IF Len(ns) = 0 THEN acc ELSE Reduce(Tail(ns), GroupStep(acc, ns[1]))

groupNotes(ns) == Reduce(ns, EmptyObject)

----------------------------------------------------------------------------
(* exportTxt *)

\* `${index + 1}. ${note.title}\n${note.text}\n(${note.createdAt})`
\* index is the zero-based position the map callback receives.
NoteLines(note, index) ==
    DecimalString(index + 1) \o <<".", " ">> \o note.title \o NL
        \o note.text \o NL \o <<"(">> \o note.createdAt \o <<")">>

\* `${group}\n${'-'.repeat(24)}\n${lines}`
TxtBlock(entry) ==
    LET lines == Join([i \in 1..Len(entry.items) |-> NoteLines(entry.items[i], i - 1)],
                      NL \o NL)
    IN  entry.group \o NL \o Repeat("-", RuleWidth) \o NL \o lines

\* blocks || 'لا توجد فوائد بعد.'
OrPlaceholder(blocks) == IF blocks # <<>> THEN blocks ELSE Placeholder

\* The download exportTxt triggers, or Threw.
exportTxt(ns) ==
    LET grouped == groupNotes(ns)
    IN  IF grouped.threw THEN [kind |-> "threw"]
        ELSE LET entries == ObjectEntries(grouped)
                 blocks == Join([k \in 1..Len(entries) |-> TxtBlock(entries[k])],
                                NL \o NL)
             IN  [kind |-> "download", name |-> "notes.txt",
                  content |-> OrPlaceholder(blocks),
                  type |-> "text/plain;charset=utf-8"]

----------------------------------------------------------------------------
(* exportCsv *)

\* A slip of the escaping: the value as it is, quotes not doubled.
ReplaceNothing(value) == value

\* value.replace(/"/g, '""')
ReplaceQuotes(value) ==
    Flat([i \in 1..Len(value) |->
            IF value[i] = QUOTE THEN <<QUOTE, QUOTE>> ELSE <<value[i]>>])

\* A slip of the quoting: the escaped value without the quotes around it.
CsvFieldBare(value) == ReplaceQuotes(value)

\* `"${value.replace(/"/g, '""')}"`
CsvField(value) == <<QUOTE>> \o ReplaceQuotes(value) \o <<QUOTE>>

\* [note.title, note.topic, note.text, note.createdAt].map(...).join(',')
CsvRow(note) ==
    Join(<<CsvField(note.title), CsvField(note.topic),
           CsvField(note.text), CsvField(note.createdAt)>>, <<",">>)

\* The download exportCsv triggers.
exportCsv(ns) ==
    LET rows == Join([i \in 1..Len(ns) |-> CsvRow(ns[i])], NL)
    IN  [kind |-> "download", name |-> "notes.csv",
         content |-> CsvHeader \o rows,
         type |-> "text/csv;charset=utf-8"]

----------------------------------------------------------------------------
(* exportJson: JSON.stringify(notes, null, 2) *)

\* The own enumerable keys of a note object, in the order the object
\* literals of saveNote and loadNotes create them.
NoteKeys == <<"id", "title", "topic", "text", "sourceImage", "createdAt">>

\* A property name as characters.
KeyChars(k) ==
    CASE k = "id" -> <<"i", "d">>
      [] k = "title" -> <<"t", "i", "t", "l", "e">>
      [] k = "topic" -> <<"t", "o", "p", "i", "c">>
      [] k = "text" -> <<"t", "e", "x", "t">>
      [] k = "sourceImage" -> <<"s", "o", "u", "r", "c", "e", "I", "m", "a", "g", "e">>
      [] k = "createdAt" -> <<"c", "r", "e", "a", "t", "e", "d", "A", "t">>

\* A slip of the serializer: every character written as it is.
JsonEscapeNone(c) == <<c>>

\* The escape JSON.stringify writes for one character of a string.
JsonEscapeChar(c) ==
    CASE c = QUOTE -> <<BACKSLASH, QUOTE>>
      [] c = BACKSLASH -> <<BACKSLASH, BACKSLASH>>
      [] c = "\n" -> <<BACKSLASH, "n">>
      [] c = "\r" -> <<BACKSLASH, "r">>
      [] c = "\t" -> <<BACKSLASH, "t">>
      [] c = "\f" -> <<BACKSLASH, "f">>
      [] OTHER -> <<c>>

\* QuoteJSONString
JsonQuote(value) ==
    <<QUOTE>> \o Flat([i \in 1..Len(value) |-> JsonEscapeChar(value[i])]) \o <<QUOTE>>

\* The indentation of nesting depth d with the gap of 2 spaces.
JsonGap == 2

JsonIndent(d) == Repeat(" ", JsonGap * d)

\* The keys of a note that are serialized: a property whose value is
\* undefined is left out.
SerializedKeys(note) == SelectSeq(NoteKeys, LAMBDA k : note[k] # Undefined)

\* One member: "key": "value"
JsonMember(note, k) == JsonQuote(KeyChars(k)) \o <<":", " ">> \o JsonQuote(note[k])

\* One note object at nesting depth 1.
JsonObject(note) ==
    LET ks == SerializedKeys(note)
    IN  IF Len(ks) = 0 THEN <<"{", "}">>
        ELSE <<"{">> \o NL
             \o Join([i \in 1..Len(ks) |-> JsonIndent(2) \o JsonMember(note, ks[i])],
                     <<",">> \o NL)
             \o NL \o JsonIndent(1) \o <<"}">>

\* JSON.stringify(notes, null, 2)
JsonStringify(ns) ==
    IF Len(ns) = 0 THEN <<"[", "]">>
    ELSE <<"[">> \o NL
         \o Join([i \in 1..Len(ns) |-> JsonIndent(1) \o JsonObject(ns[i])],
                 <<",">> \o NL)
         \o NL \o <<"]">>

\* The download exportJson triggers.
exportJson(ns) ==
    [kind |-> "download", name |-> "notes.json",
     content |-> JsonStringify(ns),
     type |-> "application/json"]

----------------------------------------------------------------------------
(* exportPdf and exportDocx: the content handed to pdfMake and docx *)

\* new Date(note.createdAt).toLocaleString('ar'): the timestamp rendered
\* for the Arabic locale.  The rendering is left uninterpreted: it is the
\* timestamp marked as localized, never the ISO string itself.
toLocaleString(createdAt) == <<"toLocaleString('ar')">> \o createdAt

\* The four blocks exportPdf emits for a note.
PdfNoteBlocks(note) ==
    << [text |-> note.title, style |-> "title", margin |-> <<>>],
       [text |-> note.text, style |-> "body", margin |-> <<>>],
       [text |-> toLocaleString(note.createdAt), style |-> "meta", margin |-> <<>>],
       [text |-> <<" ">>, style |-> "none", margin |-> <<0, 0, 0, 6>>] >>

\* The blocks exportPdf emits for a group.
PdfGroupBlocks(entry) ==
    << [text |-> entry.group, style |-> "topic", margin |-> <<>>] >>
        \o Flat([i \in 1..Len(entry.items) |-> PdfNoteBlocks(entry.items[i])])

\* A slip of the placeholder branch: content: content
PdfContentNoPlaceholder(content) == content

\* content.length ? content : [{ text: 'لا توجد فوائد بعد.' }]
PdfContentOrPlaceholder(content) ==
    IF Len(content) # 0 THEN content
    ELSE << [text |-> Placeholder, style |-> "none", margin |-> <<>>] >>

\* The document definition exportPdf hands to pdfMake, or Threw.
exportPdf(ns) ==
    LET grouped == groupNotes(ns)
    IN  IF grouped.threw THEN [kind |-> "threw"]
        ELSE LET entries == ObjectEntries(grouped)
                 content == Flat([k \in 1..Len(entries) |-> PdfGroupBlocks(entries[k])])
             IN  [kind |-> "pdf", name |-> "notes.pdf",
                  content |-> PdfContentOrPlaceholder(content)]

\* A slip of the second paragraph: the run of the timestamp left out.
DocxNoteParagraphsNoTime(note) ==
    << [text |-> note.title, heading |-> "HEADING_2", runs |-> <<>>],
       [text |-> <<>>, heading |-> "none",
        runs |-> << [text |-> note.text, break |-> 1] >>] >>

\* The two paragraphs exportDocx pushes for a note.
DocxNoteParagraphs(note) ==
    << [text |-> note.title, heading |-> "HEADING_2", runs |-> <<>>],
       [text |-> <<>>, heading |-> "none",
        runs |-> << [text |-> note.text, break |-> 1],
                    [text |-> toLocaleString(note.createdAt), break |-> 1] >>] >>

\* The paragraphs exportDocx pushes for a group.
DocxGroupParagraphs(entry) ==
    << [text |-> entry.group, heading |-> "HEADING_1", runs |-> <<>>] >>
        \o Flat([i \in 1..Len(entry.items) |-> DocxNoteParagraphs(entry.items[i])])

\* if (Object.keys(grouped).length === 0) push the placeholder paragraph,
\* else push the paragraphs of every group.
DocxChildren(grouped) ==
    IF Len(grouped.keys) = 0
    THEN << [text |-> Placeholder, heading |-> "none", runs |-> <<>>] >>
    ELSE LET entries == ObjectEntries(grouped)
         IN  Flat([k \in 1..Len(entries) |-> DocxGroupParagraphs(entries[k])])

\* The document exportDocx builds, or Threw.
exportDocx(ns) ==
    LET grouped == groupNotes(ns)
    IN  IF grouped.threw THEN [kind |-> "threw"]
        ELSE [kind |-> "docx", name |-> "notes.docx",
              children |-> DocxChildren(grouped)]

----------------------------------------------------------------------------
(* The note collections the exports are applied to *)

\* An ISO-8601 timestamp, as new Date().toISOString() writes it.
Timestamp == <<"2", "0", "2", "4", "-", "0", "1", "-", "0", "1", "T", "0", "0", ":", "0", "0", ":", "0", "0", "Z">>

\* The id of the note at position i; ids are distinct across a collection.
NoteId(i) == <<"n">> \o DecimalString(i)

\* Topics of the grouping family: empty, the fallback label itself, plain
\* words, integer-like strings and names of Object.prototype.
TopicChoices ==
    { <<>>, FallbackLabel, <<"A">>, <<"B">>, <<"1", "0">>, <<"2">>,
      <<"c", "o", "n", "s", "t", "r", "u", "c", "t", "o", "r">>,
      <<"_", "_", "p", "r", "o", "t", "o", "_", "_">> }

\* Field values of the character family: empty, and strings with a comma,
\* double quotes, a newline and a backslash.
FieldChoices ==
    { <<>>, <<"a", ",", QUOTE>>, <<QUOTE, "\n", BACKSLASH>> }

\* Topic and source image of the character family.
TagChoices ==
    { [topic |-> <<",">>, sourceImage |-> Undefined],
      [topic |-> <<QUOTE, QUOTE>>, sourceImage |-> <<"f", ".", "p", "n", "g">>] }

\* Collections of the grouping family: any topics, fields that tell the
\* notes of a collection apart.
GroupingCollections ==
    UNION { { [i \in 1..n |->
                 [id |-> NoteId(i), title |-> <<"T">> \o DecimalString(i),
                  topic |-> ts[i], text |-> <<"x">> \o DecimalString(i),
                  sourceImage |-> Undefined, createdAt |-> Timestamp]]
              : ts \in [1..n -> TopicChoices] }
            : n \in 0..MaxNotes }

\* Collections of the character family: any field values.
CharacterCollections ==
    UNION { { [i \in 1..n |->
                 [id |-> NoteId(i), title |-> f[i][1],
                  topic |-> f[i][3].topic, text |-> f[i][2],
                  sourceImage |-> f[i][3].sourceImage, createdAt |-> Timestamp]]
              : f \in [1..n -> FieldChoices \X FieldChoices \X TagChoices] }
            : n \in 0..MaxCsvNotes }

----------------------------------------------------------------------------
(* The form and the operations on the collection *)

\* The white space String.prototype.trim removes.
WhiteSpace == {" ", "\n", "\t", "\r"}

\* String.prototype.trim.
Trim(s) ==
    LET black == {i \in 1..Len(s) : s[i] \notin WhiteSpace}
    IN  IF black = {} THEN <<>>
        ELSE SubSeq(s, CHOOSE i \in black : \A j \in black : i <= j,
                       CHOOSE i \in black : \A j \in black : j <= i)

\* value || fallback, for strings.
Or(value, fallback) == IF value = <<>> THEN fallback ELSE value

\* The form after resetDraft.
EmptyDraft ==
    [title |-> <<>>, topic |-> <<>>, text |-> <<>>, sourceImage |-> Undefined,
     draftId |-> Null]

\* The form after loadNote(note).
LoadedDraft(note) ==
    [title |-> note.title, topic |-> note.topic, text |-> note.text,
     sourceImage |-> note.sourceImage, draftId |-> note.id]

\* A slip of canSave: any text passes.
canSaveAnyText(d) == Len(d.text) >= 0

\* canSave of a form.
canSave(d) == Len(Trim(d.text)) > 0

\* topics: the non-empty topics of the collection.
topics(ns) == {ns[i].topic : i \in 1..Len(ns)} \ {<<>>}

\* filteredNotes: the whole collection under 'الكل', else the notes of the
\* topic.
filteredNotes(ns, f) ==
    IF f = AllFilter THEN ns
    ELSE SelectSeq(ns, LAMBDA note : note.topic = f)

\* The main page is rendered: always in the local version, and once a user
\* is signed in in the cloud version.
isAuthenticated == version = "local" \/ authUserId # Null

\* Two decimal digits of t.
TwoDigits(t) == <<Digits[((t \div 10) % 10) + 1], Digits[(t % 10) + 1]>>

\* new Date().toISOString() at second t of the model's day.
toISOString(t) == SubSeq(Timestamp, 1, 17) \o TwoDigits(t) \o <<"Z">>

\* The instant an ISO timestamp of the model's day denotes, in seconds.
InstantOf(iso) == DigitVal(iso[18]) * 10 + DigitVal(iso[19])

\* crypto.randomUUID() called at second t: an id no other call returns.
randomUUID(t) == <<"r">> \o DecimalString(t)

\* The payload saveNote sends to the backend.
Payload(d, user, now) ==
    [title |-> Or(Trim(d.title), UntitledLabel),
     topic |-> Or(Trim(d.topic), FallbackLabel),
     text |-> Trim(d.text),
     source_image |-> IF d.sourceImage = Undefined THEN Null ELSE d.sourceImage,
     created_at |-> now,
     user_id |-> user]

\* payload.source_image ?? undefined
SourceImageOf(value) == IF value = Null THEN Undefined ELSE value

\* A slip of the update: the updated note moved to the front.
UpdatedFirst(prev, id, payload) ==
    [i \in 1..Len(prev) |->
        IF prev[i].id = id
        THEN [prev[i] EXCEPT !.title = payload.title, !.topic = payload.topic,
                             !.text = payload.text,
                             !.sourceImage = SourceImageOf(payload.source_image),
                             !.createdAt = payload.created_at]
        ELSE prev[i]] \o
    SelectSeq(prev, LAMBDA note : note.id = id)

\* The collection after a successful update of the cloud version: the note
\* with the id takes the values of the payload, in place.
Updated(prev, id, payload) ==
    [i \in 1..Len(prev) |->
        IF prev[i].id = id
        THEN [prev[i] EXCEPT !.title = payload.title, !.topic = payload.topic,
                             !.text = payload.text,
                             !.sourceImage = SourceImageOf(payload.source_image),
                             !.createdAt = payload.created_at]
        ELSE prev[i]]

\* The collection after an update of the local version: the note with the
\* id takes the fields of the form as typed.
UpdatedLocal(prev, d, now) ==
    [i \in 1..Len(prev) |->
        IF prev[i].id = d.draftId
        THEN [prev[i] EXCEPT !.title = d.title, !.topic = d.topic, !.text = d.text,
                             !.sourceImage = d.sourceImage, !.createdAt = now]
        ELSE prev[i]]

\* The note a successful save creates.
NewNote(id, payload) ==
    [id |-> id, title |-> payload.title, topic |-> payload.topic,
     text |-> payload.text, sourceImage |-> SourceImageOf(payload.source_image),
     createdAt |-> payload.created_at]

\* A slip of the removal: the first note goes, whatever its id.
WithoutFirst(prev, id) == IF prev = <<>> THEN prev ELSE Tail(prev)

\* prev.filter((note) => note.id !== id)
Without(prev, id) == SelectSeq(prev, LAMBDA note : note.id # id)

----------------------------------------------------------------------------
(* Specification: the export handlers applied to a note collection *)

NoOutput == [kind |-> "none"]

\* The result of groupNotes as the exports see it.
GroupedOutput(ns) ==
    LET grouped == groupNotes(ns)
    IN  IF grouped.threw THEN [kind |-> "threw"]
        ELSE [kind |-> "grouped", keys |-> grouped.keys, items |-> grouped.items,
              entries |-> ObjectEntries(grouped)]

\* The users that sign in.
Users == { <<"u", "1">> }

\* The users of a shared device.
TwoUsers == Users \cup { <<"u", "2">> }

\* What the user types into the title, topic and text fields: padded
\* values, a blank title and topic, a blank text.
FormInputs ==
    { [title |-> <<" ", "T">>, topic |-> <<"A">>, text |-> <<"x", " ">>],
      [title |-> <<" ">>, topic |-> <<>>, text |-> <<"x">>],
      [title |-> <<"T">>, topic |-> <<"A">>, text |-> <<" ">>] }

\* The form after the user typed v into its fields.
Typed(d, v) == [d EXCEPT !.title = v.title, !.topic = v.topic, !.text = v.text]

\* Collections of the page family: notes of up to three topics.
PageCollections ==
    UNION { { [i \in 1..n |->
                 [id |-> NoteId(i), title |-> <<"T">> \o DecimalString(i),
                  topic |-> ts[i], text |-> <<"x">> \o DecimalString(i),
                  sourceImage |-> Undefined, createdAt |-> toISOString(n - i)]]
              : ts \in [1..n -> {<<>>, <<"A">>, <<"B">>}] }
            : n \in 0..MaxPageNotes }

\* The forms a notes page is exported with: empty, and filled in.
FormsOnExport ==
    { EmptyDraft,
      Typed(EmptyDraft, [title |-> <<" ", "T">>, topic |-> <<"A">>, text |-> <<"x", " ">>]) }

\* The notes page of a signed-in user of the cloud version, holding any
\* collection of the two families, before any export.
InitExport ==
    /\ version = "cloud"
    /\ notes \in GroupingCollections \cup CharacterCollections
    /\ draft = EmptyDraft
    /\ filter = AllFilter
    /\ authUserId \in Users
    /\ saving = FALSE
    /\ syncError = Null
    /\ table = {}
    /\ reqs = {}
    /\ clock = 0
    /\ storage = Null
    /\ sourceImageFile = Null
    /\ ocrStatus = "idle"
    /\ ocrError = Null
    /\ ocrRuns = {}
    /\ op = "none"
    /\ out = NoOutput

\* The result of a handler that is no export.
Did(what) == [kind |-> what]

SetFilter ==
    /\ isAuthenticated
    /\ \E f \in {AllFilter} \cup topics(notes) : filter' = f
    /\ op' = "setFilter"
    /\ out' = NoOutput
    /\ UNCHANGED <<notes, draft, authUserId, saving, syncError, scan, world>>

GroupNotes ==
    /\ version = "cloud"
    /\ isAuthenticated
    /\ op' = "groupNotes"
    /\ out' = GroupedOutput(notes)
    /\ UNCHANGED <<notes, page, world>>

ExportTxt ==
    /\ isAuthenticated
    /\ op' = "exportTxt"
    /\ out' = exportTxt(notes)
    /\ UNCHANGED <<notes, page, world>>

\* A slip of exportCsv: the rows of the notes the filter shows.
ExportCsvFiltered ==
    /\ isAuthenticated
    /\ op' = "exportCsv"
    /\ out' = exportCsv(filteredNotes(notes, filter))
    /\ UNCHANGED <<notes, page, world>>

ExportCsv ==
    /\ isAuthenticated
    /\ op' = "exportCsv"
    /\ out' = exportCsv(notes)
    /\ UNCHANGED <<notes, page, world>>

\* A slip of exportJson: the form cleared after the download.
ExportJsonResetting ==
    /\ isAuthenticated
    /\ op' = "exportJson"
    /\ out' = exportJson(notes)
    /\ draft' = EmptyDraft
    /\ UNCHANGED <<notes, filter, authUserId, saving, syncError, scan, world>>

ExportJson ==
    /\ isAuthenticated
    /\ op' = "exportJson"
    /\ out' = exportJson(notes)
    /\ UNCHANGED <<notes, page, world>>

ExportPdf ==
    /\ version = "cloud"
    /\ isAuthenticated
    /\ op' = "exportPdf"
    /\ out' = exportPdf(notes)
    /\ UNCHANGED <<notes, page, world>>

ExportDocx ==
    /\ version = "cloud"
    /\ isAuthenticated
    /\ op' = "exportDocx"
    /\ out' = exportDocx(notes)
    /\ UNCHANGED <<notes, page, world>>

NextExport ==
    \/ GroupNotes
    \/ ExportTxt
    \/ ExportCsv
    \/ ExportJson
    \/ ExportPdf
    \/ ExportDocx

SpecExport == InitExport /\ [][NextExport]_vars

\* The notes page with its filter: a collection of the page family, an
\* empty or filled form, and the filter moved between the exports.
InitPage ==
    /\ version = "cloud"
    /\ notes \in PageCollections
    /\ draft \in FormsOnExport
    /\ filter = AllFilter
    /\ authUserId \in Users
    /\ saving = FALSE
    /\ syncError = Null
    /\ table = {}
    /\ reqs = {}
    /\ clock = 0
    /\ storage = Null
    /\ sourceImageFile = Null
    /\ ocrStatus = "idle"
    /\ ocrError = Null
    /\ ocrRuns = {}
    /\ op = "none"
    /\ out = NoOutput

NextPage ==
    \/ SetFilter
    \/ GroupNotes
    \/ ExportTxt
    \/ ExportCsv
    \/ ExportJson
    \/ ExportPdf
    \/ ExportDocx

SpecPage == InitPage /\ [][NextPage]_vars

\* The handlers that export.
ExportOps == {"groupNotes", "exportTxt", "exportCsv", "exportJson", "exportPdf", "exportDocx"}

TypeOK ==
    /\ version \in {"local", "proxied", "cloud"}
    /\ op \in ExportOps \cup
             {"none", "setFilter", "editDraft", "resetDraft", "loadNote", "saveNote",
              "deleteNote", "loadNotes", "onAuthStateChange", "mount", "backend",
              "handleImagePick", "runOcr"}
    /\ out.kind \in {"none", "threw", "grouped", "download", "pdf", "docx", "returned",
                     "requested", "updated", "created", "deleted", "loaded", "failed",
                     "session", "mounted", "refused", "served", "picked", "recognized"}
    /\ op \in ExportOps <=> out.kind \in {"threw", "grouped", "download", "pdf", "docx"}
    /\ authUserId \in TwoUsers \cup {Null}
    /\ saving \in BOOLEAN
    /\ ocrStatus \in {"idle", "loading", "success", "error"}
    /\ syncError \in {Null, LoadFailed, UpdateFailed, InsertFailed, DeleteFailed}
    /\ clock \in 0..MaxSaves
    /\ Cardinality(reqs) <= MaxInFlight
    /\ version = "local" => table = {} /\ reqs = {} /\ authUserId = Null /\ ~saving

----------------------------------------------------------------------------
(* Vocabulary of the properties *)

\* The topic of a note after the empty-topic fallback.
LabelAfterFallback(note) == IF note.topic = <<>> THEN FallbackLabel ELSE note.topic

RECURSIVE FirstSeen(_, _)
\* The labels of ns that are not in seen, each once, in the order they are
\* first met when scanning ns.
FirstSeen(ns, seen) ==
    IF Len(ns) = 0 THEN <<>>
    ELSE LET l == LabelAfterFallback(ns[1])
         IN  IF l \in seen THEN FirstSeen(Tail(ns), seen)
             ELSE <<l>> \o FirstSeen(Tail(ns), seen \cup {l})

FirstSeenLabels(ns) == FirstSeen(ns, {})

\* The notes of ns with the label l, in their order in ns.
NotesLabelled(ns, l) == SelectSeq(ns, LAMBDA n : LabelAfterFallback(n) = l)

RECURSIVE SumOfLengths(_)
SumOfLengths(ss) == IF Len(ss) = 0 THEN 0 ELSE Len(ss[1]) + SumOfLengths(Tail(ss))

\* The places (group, position) of the grouped output that hold the note n.
PlacesOf(n) ==
    {pl \in UNION {{<<g, j>> : j \in 1..Len(out.items[g])} : g \in 1..Len(out.items)} :
        out.items[pl[1]][pl[2]] = n}

\* The lines of a text: the pieces between its newlines.
SplitLines(text) ==
    LET nl == SelectSeq([i \in 1..Len(text) |-> i], LAMBDA i : text[i] = "\n")
        cut == <<0>> \o nl \o <<Len(text) + 1>>
    IN  [k \in 1..(Len(cut) - 1) |-> SubSeq(text, cut[k] + 1, cut[k + 1] - 1)]

Rule == Repeat("-", RuleWidth)

\* The group labels of a plain-text export: the lines right above a rule.
TxtLabels(text) ==
    LET lines == SplitLines(text)
        at == SelectSeq([i \in 1..Len(lines) |-> i],
                        LAMBDA i : i < Len(lines) /\ lines[i + 1] = Rule)
    IN  [k \in 1..Len(at) |-> lines[at[k]]]

\* The group labels of a PDF export: the texts of its heading blocks.
PdfLabels(content) ==
    LET hs == SelectSeq(content, LAMBDA b : b.style = "topic")
    IN  [k \in 1..Len(hs) |-> hs[k].text]

\* The group labels of a DOCX export: the texts of its level-1 headings.
DocxLabels(children) ==
    LET hs == SelectSeq(children, LAMBDA q : q.heading = "HEADING_1")
    IN  [k \in 1..Len(hs) |-> hs[k].text]

PlaceholderBlock == [text |-> Placeholder, style |-> "none", margin |-> <<>>]

PlaceholderParagraph == [text |-> Placeholder, heading |-> "none", runs |-> <<>>]

----------------------------------------------------------------------------
(* Properties of grouping *)

\* C1: for any note collection groupNotes yields a grouping in which every
\* input note appears in exactly one group and exactly once, so that the
\* sizes of the groups sum to the size of the collection.
C1_GroupsPartitionNotes ==
    op = "groupNotes" =>
        /\ out.kind = "grouped"
        /\ SumOfLengths(out.items) = Len(notes)
        /\ \A i \in 1..Len(notes) : Cardinality(PlacesOf(notes[i])) = 1

\* C2: the plain-text, PDF and DOCX exports list the groups in the order in
\* which each topic is first met when scanning the notes; the order is never
\* re-sorted, whatever the topic strings are.
C2_GroupOrderIsFirstSeen ==
    /\ (op = "exportTxt" /\ out.kind = "download" /\ Len(notes) > 0)
          => TxtLabels(out.content) = FirstSeenLabels(notes)
    /\ out.kind = "pdf" /\ Len(notes) > 0
          => PdfLabels(out.content) = FirstSeenLabels(notes)
    /\ out.kind = "docx" /\ Len(notes) > 0
          => DocxLabels(out.children) = FirstSeenLabels(notes)

\* C3: groupNotes, exportTxt, exportCsv and exportJson complete with an
\* output for every note collection; none of them raises an error.
C3_ExportIsTotal ==
    op \in {"groupNotes", "exportTxt", "exportCsv", "exportJson"}
        => out.kind \in {"grouped", "download"}

\* C4: every group groupNotes produces holds exactly the notes whose topic,
\* after the empty-topic fallback, is the group's label, in the relative
\* order they have in the input collection.
C4_GroupsKeepOrderAndTopic ==
    out.kind = "grouped" =>
        \A g \in 1..Len(out.keys) :
            out.items[g] = NotesLabelled(notes, out.keys[g])

\* C4 witness: a grouping of topics A, B, A: two groups, the first holding
\* the first and the third note.
C4_Witness ==
    /\ out.kind = "grouped"
    /\ Len(notes) = 3
    /\ Len(out.keys) = 2
    /\ out.items[1] = <<notes[1], notes[3]>>
    /\ out.items[2] = <<notes[2]>>

\* C5: a note with the empty topic is in the group labelled with the
\* fallback label, together with the notes whose topic is that label; no
\* group is labelled with the empty string.
C5_EmptyTopicUnderFallback ==
    out.kind = "grouped" =>
        /\ \A g \in 1..Len(out.keys) : out.keys[g] # <<>>
        /\ \A g, h \in 1..Len(out.keys) : out.keys[g] = out.keys[h] => g = h
        /\ \A g \in 1..Len(out.keys) :
              \A j \in 1..Len(out.items[g]) :
                  out.items[g][j].topic \in {<<>>, FallbackLabel}
                      => out.keys[g] = FallbackLabel
        /\ \A i \in 1..Len(notes) :
              notes[i].topic \in {<<>>, FallbackLabel}
                  => \E g \in 1..Len(out.keys) :
                        /\ out.keys[g] = FallbackLabel
                        /\ \E j \in 1..Len(out.items[g]) : out.items[g][j] = notes[i]

\* C5 witness: a group that holds a note with the empty topic and a note
\* whose topic is the fallback label.
C5_Witness ==
    /\ out.kind = "grouped"
    /\ \E g \in 1..Len(out.keys) :
          /\ \E j \in 1..Len(out.items[g]) : out.items[g][j].topic = <<>>
          /\ \E j \in 1..Len(out.items[g]) : out.items[g][j].topic = FallbackLabel

\* C6: for the empty collection exportTxt emits the placeholder sentence,
\* exportPdf a content list of the one placeholder block and exportDocx the
\* one placeholder paragraph, and nothing else; for a non-empty collection
\* none of them emits the placeholder.
C6_PlaceholderIffEmpty ==
    /\ op = "exportTxt" =>
          /\ Len(notes) = 0 => out.kind = "download" /\ out.content = Placeholder
          /\ Len(notes) > 0 /\ out.kind = "download" => out.content # Placeholder
    /\ op = "exportPdf" =>
          /\ Len(notes) = 0 => out.kind = "pdf" /\ out.content = <<PlaceholderBlock>>
          /\ Len(notes) > 0 /\ out.kind = "pdf" =>
                \A k \in 1..Len(out.content) : out.content[k] # PlaceholderBlock
    /\ op = "exportDocx" =>
          /\ Len(notes) = 0 =>
                out.kind = "docx" /\ out.children = <<PlaceholderParagraph>>
          /\ Len(notes) > 0 /\ out.kind = "docx" =>
                \A k \in 1..Len(out.children) : out.children[k] # PlaceholderParagraph

\* C6 witness: the PDF export of the empty collection, with its one block.
C6_Witness ==
    /\ op = "exportPdf"
    /\ Len(notes) = 0
    /\ out.kind = "pdf"
    /\ Len(out.content) = 1

----------------------------------------------------------------------------
(* A CSV reader with the standard quote-doubling rules *)

\* The reader before the first character: no record, no field, at the
\* start of a field.
CsvReaderStart == [rows |-> <<>>, row |-> <<>>, field |-> <<>>, mode |-> "start"]

CsvEndField(st) ==
    [st EXCEPT !.row = Append(@, st.field), !.field = <<>>, !.mode = "start"]

CsvEndRow(st) ==
    [st EXCEPT !.rows = Append(@, Append(st.row, st.field)),
               !.row = <<>>, !.field = <<>>, !.mode = "start"]

\* One character read.  A field that starts with a quote runs to the next
\* quote that is not doubled; inside it a doubled quote stands for one quote
\* and commas and newlines are data.
CsvStep(st, c) ==
    CASE st.mode = "quoted" ->
            IF c = QUOTE THEN [st EXCEPT !.mode = "closing"]
            ELSE [st EXCEPT !.field = Append(@, c)]
      [] st.mode = "closing" /\ c = QUOTE ->
            [st EXCEPT !.field = Append(@, QUOTE), !.mode = "quoted"]
      [] st.mode = "start" /\ c = QUOTE -> [st EXCEPT !.mode = "quoted"]
      [] st.mode # "quoted" /\ c = "," -> CsvEndField(st)
      [] st.mode # "quoted" /\ c = "\n" -> CsvEndRow(st)
      [] OTHER -> [st EXCEPT !.field = Append(@, c), !.mode = "plain"]

RECURSIVE CsvRead(_, _, _, _)
\* The reader after the characters lo..hi of text, from the state st: the
\* first half of the stretch is read, then the second ("stop" is the mode
\* of a reader that gave up; this one never does).
CsvRead(text, lo, hi, st) ==
    IF lo > hi THEN st
    ELSE IF lo = hi THEN CsvStep(st, text[lo])
    ELSE LET mid == (lo + hi) \div 2
             half == CsvRead(text, lo, mid, st)
         IN  IF half.mode = "stop" THEN half
             ELSE CsvRead(text, mid + 1, hi, half)

\* The records of a CSV text, each a sequence of field values.  A newline
\* at the very end of the text ends the last record and starts no other.
ParseCsv(text) ==
    LET st == CsvRead(text, 1, Len(text), CsvReaderStart)
    IN  IF st.mode = "start" /\ st.row = <<>> THEN st.rows
        ELSE Append(st.rows, Append(st.row, st.field))

\* The four exported fields of a note, in the order of the header.
CsvValues(note) == <<note.title, note.topic, note.text, note.createdAt>>

CsvColumns ==
    << <<"t", "i", "t", "l", "e">>, <<"t", "o", "p", "i", "c">>,
       <<"t", "e", "x", "t">>, <<"c", "r", "e", "a", "t", "e", "d", "A", "t">> >>

\* One character of the raw text read, keeping every character: a quote
\* switches between inside and outside a quoted stretch, and only a comma or
\* a newline outside ends a field or a row.
RawStep(st, c) ==
    CASE c = QUOTE ->
            [st EXCEPT !.field = Append(@, c),
                       !.mode = IF st.mode = "quoted" THEN "plain" ELSE "quoted"]
      [] st.mode # "quoted" /\ c = "," -> CsvEndField(st)
      [] st.mode # "quoted" /\ c = "\n" -> CsvEndRow(st)
      [] OTHER -> [st EXCEPT !.field = Append(@, c)]

RECURSIVE RawRead(_, _, _, _)
RawRead(text, lo, hi, st) ==
    IF lo > hi THEN st
    ELSE IF lo = hi THEN RawStep(st, text[lo])
    ELSE LET mid == (lo + hi) \div 2
             half == RawRead(text, lo, mid, st)
         IN  IF half.mode = "stop" THEN half
             ELSE RawRead(text, mid + 1, hi, half)

\* The rows of a CSV text as raw fields, quotes and escapes kept.
RawRows(text) ==
    LET st == RawRead(text, 1, Len(text), CsvReaderStart)
    IN  IF st.mode = "start" /\ st.row = <<>> THEN st.rows
        ELSE Append(st.rows, Append(st.row, st.field))

\* The number of double quotes among the first n characters of value.
QuotesBefore(value, n) == Cardinality({j \in 1..n : value[j] = QUOTE})

\* raw is value wrapped in double quotes, each double quote of value
\* written twice and every other character written as it is.
IsQuotedField(raw, value) ==
    /\ Len(raw) = Len(value) + QuotesBefore(value, Len(value)) + 2
    /\ raw[1] = QUOTE
    /\ raw[Len(raw)] = QUOTE
    /\ \A i \in 1..Len(value) :
          LET at == 1 + i + QuotesBefore(value, i - 1)
          IN  /\ raw[at] = value[i]
              /\ value[i] = QUOTE => raw[at + 1] = QUOTE

\* Some exported field of the collection holds the character c.
SomeFieldHolds(c) ==
    \E i \in 1..Len(notes) : \E f \in 1..4 :
        \E k \in 1..Len(CsvValues(notes[i])[f]) : CsvValues(notes[i])[f][k] = c

----------------------------------------------------------------------------
(* Properties of the CSV export *)

\* C7: reading the text exportCsv emits with the standard quote-doubling
\* rules gives the header record and then one record per note, in the
\* original order, whose four fields are the note's title, topic, text and
\* createdAt exactly, also when a value holds commas, quotes or newlines.
C7_CsvRoundTrips ==
    op = "exportCsv" =>
        LET recs == ParseCsv(out.content)
        IN  /\ Len(recs) = Len(notes) + 1
            /\ recs[1] = CsvColumns
            /\ \A i \in 1..Len(notes) : recs[i + 1] = CsvValues(notes[i])

\* C7 witness: a CSV export of two notes whose fields hold a comma, a double
\* quote and a newline.
C7_Witness ==
    /\ op = "exportCsv"
    /\ Len(notes) = 2
    /\ SomeFieldHolds(",")
    /\ SomeFieldHolds(QUOTE)
    /\ SomeFieldHolds("\n")
    /\ ParseCsv(out.content)[3] = CsvValues(notes[2])

\* C8: the text exportCsv emits is the header row, then one row per note in
\* collection order, each of exactly four fields, every field wrapped in
\* double quotes with its double quotes doubled and nothing else altered;
\* for the empty collection it is the header row alone.
C8_CsvShape ==
    op = "exportCsv" =>
        LET rows == RawRows(out.content)
        IN  /\ SubSeq(out.content, 1, Len(CsvHeader)) = CsvHeader
            /\ Len(notes) = 0 => out.content = CsvHeader
            /\ Len(rows) = Len(notes) + 1
            /\ rows[1] = CsvColumns
            /\ \A i \in 1..Len(notes) :
                  /\ Len(rows[i + 1]) = 4
                  /\ \A f \in 1..4 :
                        IsQuotedField(rows[i + 1][f], CsvValues(notes[i])[f])

\* C8 witness: a CSV export of two notes, one field of which is empty and
\* one of which holds a double quote.
C8_Witness ==
    /\ op = "exportCsv"
    /\ Len(notes) = 2
    /\ SomeFieldHolds(QUOTE)
    /\ \E i \in 1..2 : \E f \in 1..4 : CsvValues(notes[i])[f] = <<>>
    /\ Len(RawRows(out.content)) = 3

----------------------------------------------------------------------------
(* A JSON reader for arrays of objects with string members *)

JsonReaderStart ==
    [mode |-> "start", items |-> <<>>, obj |-> <<>>, key |-> <<>>, str |-> <<>>]

JsonWhitespace == {" ", "\n", "\t", "\r"}

\* Characters a JSON string may not hold unescaped.
JsonControl == {"\n", "\t", "\r", "\f"}

\* The character an escape \c stands for; <<>> when \c is no escape.
JsonUnescape(c) ==
    CASE c = QUOTE -> <<QUOTE>>
      [] c = BACKSLASH -> <<BACKSLASH>>
      [] c = "/" -> <<"/">>
      [] c = "n" -> <<"\n">>
      [] c = "r" -> <<"\r">>
      [] c = "t" -> <<"\t">>
      [] c = "f" -> <<"\f">>
      [] OTHER -> <<>>

JsonStop(st) == [st EXCEPT !.mode = "stop"]

\* One character read inside a string; done is the mode after the closing
\* quote, esc the mode after a backslash.
JsonStringStep(st, c, esc) ==
    CASE c = BACKSLASH -> [st EXCEPT !.mode = esc]
      [] c \in JsonControl -> JsonStop(st)
      [] OTHER -> [st EXCEPT !.str = Append(@, c)]

\* One character read after a backslash; back is the mode of the string.
JsonEscapeStep(st, c, back) ==
    IF JsonUnescape(c) = <<>> THEN JsonStop(st)
    ELSE [st EXCEPT !.str = @ \o JsonUnescape(c), !.mode = back]

\* One character read.  "stop" is the mode of a reader that met a
\* character the grammar does not allow.
JsonStep(st, c) ==
    CASE st.mode = "stop" -> st
      [] st.mode = "key" /\ c = QUOTE ->
            [st EXCEPT !.key = st.str, !.str = <<>>, !.mode = "colon"]
      [] st.mode = "key" /\ c # QUOTE -> JsonStringStep(st, c, "keyEscape")
      [] st.mode = "keyEscape" -> JsonEscapeStep(st, c, "key")
      [] st.mode = "value" /\ c = QUOTE ->
            [st EXCEPT !.obj = Append(@, [k |-> st.key, v |-> st.str]),
                       !.str = <<>>, !.mode = "afterMember"]
      [] st.mode = "value" /\ c # QUOTE -> JsonStringStep(st, c, "valueEscape")
      [] st.mode = "valueEscape" -> JsonEscapeStep(st, c, "value")
      [] st.mode \notin {"key", "keyEscape", "value", "valueEscape", "stop"}
            /\ c \in JsonWhitespace -> st
      [] st.mode = "start" /\ c = "[" -> [st EXCEPT !.mode = "firstItem"]
      [] st.mode = "firstItem" /\ c = "]" -> [st EXCEPT !.mode = "end"]
      [] st.mode \in {"firstItem", "nextItem"} /\ c = "{" ->
            [st EXCEPT !.obj = <<>>, !.mode = "firstMember"]
      [] st.mode = "firstMember" /\ c = "}" ->
            [st EXCEPT !.items = Append(@, st.obj), !.mode = "afterItem"]
      [] st.mode \in {"firstMember", "nextMember"} /\ c = QUOTE ->
            [st EXCEPT !.str = <<>>, !.mode = "key"]
      [] st.mode = "colon" /\ c = ":" -> [st EXCEPT !.mode = "beforeValue"]
      [] st.mode = "beforeValue" /\ c = QUOTE ->
            [st EXCEPT !.str = <<>>, !.mode = "value"]
      [] st.mode = "afterMember" /\ c = "," -> [st EXCEPT !.mode = "nextMember"]
      [] st.mode = "afterMember" /\ c = "}" ->
            [st EXCEPT !.items = Append(@, st.obj), !.mode = "afterItem"]
      [] st.mode = "afterItem" /\ c = "," -> [st EXCEPT !.mode = "nextItem"]
      [] st.mode = "afterItem" /\ c = "]" -> [st EXCEPT !.mode = "end"]
      [] OTHER -> JsonStop(st)

RECURSIVE JsonRead(_, _, _, _)
\* The reader after the characters lo..hi of text, from the state st.
JsonRead(text, lo, hi, st) ==
    IF lo > hi THEN st
    ELSE IF lo = hi THEN JsonStep(st, text[lo])
    ELSE LET mid == (lo + hi) \div 2
             half == JsonRead(text, lo, mid, st)
         IN  IF half.mode = "stop" THEN half
             ELSE JsonRead(text, mid + 1, hi, half)

\* JSON.parse: the reader after the whole text; the text is a JSON array of
\* objects exactly when the mode is "end", and items are its objects, each
\* the sequence of its members.
ParseJson(text) == JsonRead(text, 1, Len(text), JsonReaderStart)

\* Reading the property k of a parsed object: the value of its member, or
\* undefined when the object has no such member.
ReadProperty(obj, k) ==
    IF \E m \in 1..Len(obj) : obj[m].k = KeyChars(k)
    THEN obj[CHOOSE m \in 1..Len(obj) : obj[m].k = KeyChars(k)].v
    ELSE Undefined

\* A parsed object is deep-equal to a note: it has no property but those of
\* a note, none twice, and each property of the Note type reads the same.
DeepEqualNote(obj, note) ==
    /\ \A m \in 1..Len(obj) : \E i \in 1..Len(NoteKeys) : obj[m].k = KeyChars(NoteKeys[i])
    /\ \A m, n \in 1..Len(obj) : obj[m].k = obj[n].k => m = n
    /\ \A i \in 1..Len(NoteKeys) : ReadProperty(obj, NoteKeys[i]) = note[NoteKeys[i]]

\* Some string property of the collection holds the character c.
SomePropertyHolds(c) ==
    \E i \in 1..Len(notes) : \E f \in {"title", "topic", "text"} :
        \E k \in 1..Len(notes[i][f]) : notes[i][f][k] = c

----------------------------------------------------------------------------
(* Properties of the JSON export *)

\* C9: parsing the text exportJson emits gives an array with one object per
\* note, in the original order, deep-equal to the input collection, also
\* for notes without a sourceImage.
C9_JsonRoundTrips ==
    op = "exportJson" =>
        LET parsed == ParseJson(out.content)
        IN  /\ parsed.mode = "end"
            /\ Len(parsed.items) = Len(notes)
            /\ \A i \in 1..Len(notes) : DeepEqualNote(parsed.items[i], notes[i])

\* C9 witness: a JSON export of two notes, one without and one with a
\* sourceImage, with a double quote, a backslash and a newline in their
\* strings, that parses to two objects.
C9_Witness ==
    /\ op = "exportJson"
    /\ Len(notes) = 2
    /\ \E i \in 1..2 : notes[i].sourceImage = Undefined
    /\ \E i \in 1..2 : notes[i].sourceImage # Undefined
    /\ SomePropertyHolds(QUOTE)
    /\ SomePropertyHolds(BACKSLASH)
    /\ SomePropertyHolds("\n")
    /\ Len(ParseJson(out.content).items) = 2

----------------------------------------------------------------------------
(* Properties of the plain-text export *)

\* A note as the plain-text export renders it with the number n.
TxtNote(note, n) ==
    DecimalString(n) \o <<".", " ">> \o note.title \o NL
        \o note.text \o NL \o <<"(">> \o note.createdAt \o <<")">>

\* A group as the plain-text export renders it: the label, the rule, the
\* notes numbered from 1 with a blank line between them.
TxtGroup(ns, l) ==
    LET members == NotesLabelled(ns, l)
    IN  l \o NL \o Rule \o NL
          \o Join([j \in 1..Len(members) |-> TxtNote(members[j], j)], NL \o NL)

\* The plain-text export of a collection: its groups, in the order their
\* topics are first met, with a blank line between them.
TxtLayout(ns) ==
    LET ls == FirstSeenLabels(ns)
    IN  Join([g \in 1..Len(ls) |-> TxtGroup(ns, ls[g])], NL \o NL)

\* C10: for a non-empty collection the text exportTxt emits is, for each
\* group in group order, the label, a rule of 24 '-', and the notes of the
\* group as '<n>. <title>' / '<text>' / '(<createdAt>)' with n counting from
\* 1 in every group, notes and groups each separated by one blank line.
C10_TxtLayout ==
    op = "exportTxt" /\ Len(notes) > 0 =>
        /\ out.kind = "download"
        /\ out.content = TxtLayout(notes)


----------------------------------------------------------------------------
(* Properties of the PDF and DOCX content *)

\* The group labels in the order the plain-text export of ns lists them.
TxtGroupOrder(ns) == TxtLabels(exportTxt(ns).content)

\* A PDF content list with one heading block per label of ls, in order, and
\* after it the blocks perNote(n) of every note n with that label, in order.
BlocksByGroup(ns, ls, heading(_), perNote(_)) ==
    Flat([g \in 1..Len(ls) |->
            <<heading(ls[g])>>
                \o Flat([j \in 1..Len(NotesLabelled(ns, ls[g])) |->
                            perNote(NotesLabelled(ns, ls[g])[j])])])

PdfHeading(l) == [text |-> l, style |-> "topic", margin |-> <<>>]

DocxHeading(l) == [text |-> l, heading |-> "HEADING_1", runs |-> <<>>]

\* Sub-heading, body and metadata block of a note, and nothing else.
PdfThreeBlocks(n) ==
    << [text |-> n.title, style |-> "title", margin |-> <<>>],
       [text |-> n.text, style |-> "body", margin |-> <<>>],
       [text |-> toLocaleString(n.createdAt), style |-> "meta", margin |-> <<>>] >>

\* Sub-heading, body and metadata block of a note, then a spacer block.
PdfFourBlocks(n) ==
    PdfThreeBlocks(n) \o << [text |-> <<" ">>, style |-> "none", margin |-> <<0, 0, 0, 6>>] >>

\* Sub-heading, body and metadata paragraph of a note.
DocxThreeParagraphs(n) ==
    << [text |-> n.title, heading |-> "HEADING_2", runs |-> <<>>],
       [text |-> n.text, heading |-> "none", runs |-> <<>>],
       [text |-> toLocaleString(n.createdAt), heading |-> "none", runs |-> <<>>] >>

\* Sub-heading paragraph of a note, then one paragraph whose two runs are
\* the text and the timestamp, each after a line break.
DocxTwoParagraphs(n) ==
    << [text |-> n.title, heading |-> "HEADING_2", runs |-> <<>>],
       [text |-> <<>>, heading |-> "none",
        runs |-> << [text |-> n.text, break |-> 1],
                    [text |-> toLocaleString(n.createdAt), break |-> 1] >>] >>

\* C11 as stated: the PDF and the DOCX content are, for each group in the
\* group order of the plain text, one heading block and then for each note of
\* the group exactly three blocks: sub-heading, body, metadata.
C11_ThreeBlocksPerNote ==
    /\ out.kind = "pdf" /\ Len(notes) > 0 =>
          out.content =
              BlocksByGroup(notes, TxtGroupOrder(notes), PdfHeading, PdfThreeBlocks)
    /\ out.kind = "docx" /\ Len(notes) > 0 =>
          out.children =
              BlocksByGroup(notes, TxtGroupOrder(notes), DocxHeading, DocxThreeParagraphs)

\* C11 amended: exportPdf and exportDocx fail exactly when exportTxt fails;
\* otherwise both list the groups, and the notes of a group, in the order of
\* the plain text, with one heading per group; per note the PDF has four
\* blocks (title, text, timestamp, spacer) and the DOCX two paragraphs (the
\* title, and the text and the timestamp as two runs of one paragraph).
C11_SameGroupsOwnBlocks ==
    /\ op = "exportPdf" =>
          /\ out.kind = "threw" <=> exportTxt(notes).kind = "threw"
          /\ out.kind = "pdf" /\ Len(notes) > 0 =>
                out.content =
                    BlocksByGroup(notes, TxtGroupOrder(notes), PdfHeading, PdfFourBlocks)
    /\ op = "exportDocx" =>
          /\ out.kind = "threw" <=> exportTxt(notes).kind = "threw"
          /\ out.kind = "docx" /\ Len(notes) > 0 =>
                out.children =
                    BlocksByGroup(notes, TxtGroupOrder(notes), DocxHeading, DocxTwoParagraphs)

\* C11 witness: a DOCX export of three notes in two groups.
C11_Witness ==
    /\ op = "exportDocx"
    /\ out.kind = "docx"
    /\ Len(notes) = 3
    /\ Len(DocxLabels(out.children)) = 2
    /\ Len(out.children) = 8

----------------------------------------------------------------------------
(* The backend table and localStorage *)

\* The id the backend gives the row of an insert: one per insert.
RowId(payload) == NoteId(InstantOf(payload.created_at))

RowOf(id, payload) ==
    [id |-> id, title |-> payload.title, topic |-> payload.topic,
     text |-> payload.text, source_image |-> payload.source_image,
     created_at |-> payload.created_at, user_id |-> payload.user_id]

\* .insert(payload)
Inserted(rows, payload) == rows \cup { RowOf(RowId(payload), payload) }

\* .update(payload).eq('id', id)
RowsUpdated(rows, id, payload) ==
    { IF r.id = id THEN RowOf(id, payload) ELSE r : r \in rows }

\* .delete().eq('id', id)
RowsDeleted(rows, id) == { r \in rows : r.id # id }

RECURSIVE NewestFirst(_)
\* .order('created_at', { ascending: false }) of a set of rows.
NewestFirst(rows) ==
    IF rows = {} THEN <<>>
    ELSE LET newest == CHOOSE r \in rows :
                 \A q \in rows : InstantOf(q.created_at) <= InstantOf(r.created_at)
         IN  <<newest>> \o NewestFirst(rows \ {newest})

\* .select(...).eq('user_id', user).order('created_at', { ascending: false })
Selected(rows, user) == NewestFirst({ r \in rows : r.user_id = user })

\* The notes loadNotes maps the rows of a response to.
Mapped(data) ==
    [i \in 1..Len(data) |->
        [id |-> data[i].id, title |-> data[i].title, topic |-> data[i].topic,
         text |-> data[i].text, sourceImage |-> SourceImageOf(data[i].source_image),
         createdAt |-> data[i].created_at]]

\* The requests as sent.
LoadRequest(user) == [kind |-> "load", phase |-> "sent", user |-> user]

UpdateRequest(id, payload) ==
    [kind |-> "update", phase |-> "sent", id |-> id, payload |-> payload]

InsertRequest(payload) == [kind |-> "insert", phase |-> "sent", payload |-> payload]

DeleteRequest(id) == [kind |-> "delete", phase |-> "sent", id |-> id]

\* A request answered with an error, and with data.
Refused(r) == [r EXCEPT !.phase = "answered"] @@ [error |-> TRUE, data |-> <<>>]

Answered(r, data) == [r EXCEPT !.phase = "answered"] @@ [error |-> FALSE, data |-> data]

\* The Note a parsed object of localStorage is read as.
NoteOfObject(obj) ==
    [id |-> ReadProperty(obj, "id"), title |-> ReadProperty(obj, "title"),
     topic |-> ReadProperty(obj, "topic"), text |-> ReadProperty(obj, "text"),
     sourceImage |-> ReadProperty(obj, "sourceImage"),
     createdAt |-> ReadProperty(obj, "createdAt")]

\* The collection the mount effect of the local version loads from a
\* stored text: none without a text, [] when the text does not parse.
Stored(raw) ==
    LET parsed == ParseJson(raw)
    IN  IF parsed.mode = "end"
        THEN [i \in 1..Len(parsed.items) |-> NoteOfObject(parsed.items[i])]
        ELSE <<>>

\* JSON.stringify(notes): no gap, the members "key":"value" of a note
\* between braces, the notes between brackets.
StoredText(ns) ==
    LET member(note, k) == JsonQuote(KeyChars(k)) \o <<":">> \o JsonQuote(note[k])
        object(note) ==
            LET ks == SerializedKeys(note)
            IN  <<"{">> \o Join([i \in 1..Len(ks) |-> member(note, ks[i])], <<",">>)
                \o <<"}">>
    IN  <<"[">> \o Join([i \in 1..Len(ns) |-> object(ns[i])], <<",">>) \o <<"]">>

\* A slip of the effect on [notes]: the text of exportJson, with its gap.
PersistedWithGap(ns) == IF version = "local" THEN JsonStringify(ns) ELSE storage

\* What the effect on [notes] leaves in localStorage.
Persisted(ns) == IF version = "local" THEN StoredText(ns) ELSE storage

----------------------------------------------------------------------------
(* Specification: the application *)

\* The row a user saved in an earlier session, at second 0.
EarlierRow(user) ==
    RowOf(NoteId(0), Payload(Typed(EmptyDraft, CHOOSE v \in FormInputs : v.text = <<"x", " ">>),
                             user, toISOString(0)))

\* The row the other user saved in an earlier session, at second 50.
OtherRow(user) ==
    RowOf(NoteId(50), Payload(Typed(EmptyDraft, CHOOSE v \in FormInputs : v.text = <<"x">>),
                              user, toISOString(50)))

\* The application as opened: nothing loaded yet; in the cloud version the
\* table is empty or holds a row of an earlier session.
Init ==
    /\ version \in {"local", "cloud"}
    /\ notes = <<>>
    /\ draft = EmptyDraft
    /\ filter = AllFilter
    /\ authUserId = Null
    /\ saving = FALSE
    /\ syncError = Null
    /\ table \in IF version = "cloud" THEN { {}, {EarlierRow(u) : u \in Users} } ELSE { {} }
    /\ reqs = {}
    /\ clock = 0
    /\ storage = IF version = "local" THEN StoredText(<<>>) ELSE Null
    /\ sourceImageFile = Null
    /\ ocrStatus = "idle"
    /\ ocrError = Null
    /\ ocrRuns = {}
    /\ op = "none"
    /\ out = NoOutput

\* The user edits the title, topic and text fields of the form.
EditDraft ==
    /\ isAuthenticated
    /\ \E v \in FormInputs : draft' = Typed(draft, v)
    /\ op' = "editDraft"
    /\ out' = NoOutput
    /\ UNCHANGED <<notes, filter, authUserId, saving, syncError, scan, world>>

ResetDraft ==
    /\ isAuthenticated
    /\ draft' = EmptyDraft
    /\ sourceImageFile' = Null
    /\ ocrStatus' = "idle"
    /\ ocrError' = Null
    /\ syncError' = Null
    /\ op' = "resetDraft"
    /\ out' = NoOutput
    /\ UNCHANGED <<notes, filter, authUserId, saving, world>>

LoadNote ==
    /\ isAuthenticated
    /\ \E i \in 1..Len(filteredNotes(notes, filter)) :
          draft' = LoadedDraft(filteredNotes(notes, filter)[i])
    /\ op' = "loadNote"
    /\ out' = NoOutput
    /\ UNCHANGED <<notes, filter, authUserId, saving, syncError, scan, world>>

\* A slip of the guard: the form cleared on the way out.
SaveNoteReturnResetting ==
    /\ ~saving
    /\ ~canSave(draft) \/ (version = "cloud" /\ authUserId = Null)
    /\ draft' = EmptyDraft
    /\ op' = "saveNote"
    /\ out' = Did("returned")
    /\ UNCHANGED <<notes, filter, authUserId, saving, syncError, scan, world>>

\* saveNote returns at its guard.
SaveNoteReturn ==
    /\ ~saving
    /\ ~canSave(draft) \/ (version = "cloud" /\ authUserId = Null)
    /\ op' = "saveNote"
    /\ out' = Did("returned")
    /\ UNCHANGED <<notes, page, world>>

\* saveNote of the local version.
SaveNoteLocal ==
    /\ version = "local"
    /\ canSave(draft)
    /\ clock < MaxSaves
    /\ clock' = clock + 1
    /\ IF draft.draftId # Null
       THEN /\ notes' = UpdatedLocal(notes, draft, toISOString(clock'))
            /\ out' = Did("updated")
       ELSE /\ notes' = <<NewNote(randomUUID(clock'),
                                  Payload(draft, Null, toISOString(clock')))>> \o notes
            /\ out' = Did("created")
    /\ draft' = EmptyDraft
    /\ sourceImageFile' = Null
    /\ ocrStatus' = "idle"
    /\ ocrError' = Null
    /\ storage' = Persisted(notes')
    /\ op' = "saveNote"
    /\ UNCHANGED <<filter, authUserId, saving, syncError, version, table, reqs, ocrRuns>>

\* saveNote of the cloud version, up to its await.
SaveNoteSend ==
    /\ version = "cloud"
    /\ ~saving
    /\ canSave(draft)
    /\ authUserId # Null
    /\ clock < MaxCloudSaves
    /\ Cardinality(reqs) < MaxInFlight
    /\ clock' = clock + 1
    /\ saving' = TRUE
    /\ syncError' = Null
    /\ LET payload == Payload(draft, authUserId, toISOString(clock'))
       IN  reqs' = reqs \cup { IF draft.draftId # Null
                               THEN UpdateRequest(draft.draftId, payload)
                               ELSE InsertRequest(payload) }
    /\ op' = "saveNote"
    /\ out' = Did("requested")
    /\ UNCHANGED <<notes, draft, filter, authUserId, scan, version, table, storage, ocrRuns>>

\* A slip of the update branch: the error path returns with the flag set.
SaveNoteUpdatedStillSaving ==
    \E r \in reqs :
        /\ r.kind = "update"
        /\ r.phase = "answered"
        /\ reqs' = reqs \ {r}
        /\ IF r.error
           THEN /\ syncError' = UpdateFailed
                /\ out' = Did("failed")
                /\ UNCHANGED <<notes, draft, scan, saving>>
           ELSE /\ notes' = Updated(notes, r.id, r.payload)
                /\ saving' = FALSE
                /\ draft' = EmptyDraft
                /\ sourceImageFile' = Null
                /\ ocrStatus' = "idle"
                /\ ocrError' = Null
                /\ syncError' = Null
                /\ out' = Did("updated")
        /\ op' = "saveNote"
        /\ UNCHANGED <<filter, authUserId, version, table, clock, storage, ocrRuns>>

\* saveNote after the await of its update.
SaveNoteUpdated ==
    \E r \in reqs :
        /\ r.kind = "update"
        /\ r.phase = "answered"
        /\ reqs' = reqs \ {r}
        /\ saving' = FALSE
        /\ IF r.error
           THEN /\ syncError' = UpdateFailed
                /\ out' = Did("failed")
                /\ UNCHANGED <<notes, draft, scan>>
           ELSE /\ notes' = Updated(notes, r.id, r.payload)
                /\ draft' = EmptyDraft
                /\ sourceImageFile' = Null
                /\ ocrStatus' = "idle"
                /\ ocrError' = Null
                /\ syncError' = Null
                /\ out' = Did("updated")
        /\ op' = "saveNote"
        /\ UNCHANGED <<filter, authUserId, version, table, clock, storage, ocrRuns>>

\* A slip of the insert branch: the form cleared on the error path too.
SaveNoteInsertedClearing ==
    \E r \in reqs :
        /\ r.kind = "insert"
        /\ r.phase = "answered"
        /\ reqs' = reqs \ {r}
        /\ saving' = FALSE
        /\ IF r.error
           THEN /\ syncError' = InsertFailed
                /\ out' = Did("failed")
                /\ draft' = EmptyDraft
                /\ UNCHANGED <<notes, scan>>
           ELSE /\ LET newId == IF r.data # <<>> THEN r.data[1].id
                                ELSE randomUUID(InstantOf(r.payload.created_at))
                   IN  notes' = <<NewNote(newId, r.payload)>> \o notes
                /\ draft' = EmptyDraft
                /\ sourceImageFile' = Null
                /\ ocrStatus' = "idle"
                /\ ocrError' = Null
                /\ syncError' = Null
                /\ out' = Did("created")
        /\ op' = "saveNote"
        /\ UNCHANGED <<filter, authUserId, version, table, clock, storage, ocrRuns>>

\* saveNote after the await of its insert.
SaveNoteInserted ==
    \E r \in reqs :
        /\ r.kind = "insert"
        /\ r.phase = "answered"
        /\ reqs' = reqs \ {r}
        /\ saving' = FALSE
        /\ IF r.error
           THEN /\ syncError' = InsertFailed
                /\ out' = Did("failed")
                /\ UNCHANGED <<notes, draft, scan>>
           ELSE /\ LET newId == IF r.data # <<>> THEN r.data[1].id
                                ELSE randomUUID(InstantOf(r.payload.created_at))
                   IN  notes' = <<NewNote(newId, r.payload)>> \o notes
                /\ draft' = EmptyDraft
                /\ sourceImageFile' = Null
                /\ ocrStatus' = "idle"
                /\ ocrError' = Null
                /\ syncError' = Null
                /\ out' = Did("created")
        /\ op' = "saveNote"
        /\ UNCHANGED <<filter, authUserId, version, table, clock, storage, ocrRuns>>

\* deleteNote of the local version.
DeleteNoteLocal ==
    /\ version = "local"
    /\ \E i \in 1..Len(filteredNotes(notes, filter)) :
          notes' = Without(notes, filteredNotes(notes, filter)[i].id)
    /\ storage' = Persisted(notes')
    /\ op' = "deleteNote"
    /\ out' = Did("deleted")
    /\ UNCHANGED <<page, version, table, reqs, clock, ocrRuns>>

\* deleteNote of the cloud version, up to its await.
DeleteNoteSend ==
    /\ version = "cloud"
    /\ isAuthenticated
    /\ Cardinality(reqs) < MaxInFlight
    /\ \E i \in 1..Len(filteredNotes(notes, filter)) :
          reqs' = reqs \cup { DeleteRequest(filteredNotes(notes, filter)[i].id) }
    /\ syncError' = Null
    /\ op' = "deleteNote"
    /\ out' = Did("requested")
    /\ UNCHANGED <<notes, draft, filter, authUserId, saving, scan, version, table, clock, storage, ocrRuns>>

\* deleteNote after its await.
DeleteNoteDone ==
    \E r \in reqs :
        /\ r.kind = "delete"
        /\ r.phase = "answered"
        /\ reqs' = reqs \ {r}
        /\ IF r.error
           THEN /\ syncError' = DeleteFailed
                /\ out' = Did("failed")
                /\ UNCHANGED notes
           ELSE /\ notes' = Without(notes, r.id)
                /\ out' = Did("deleted")
                /\ UNCHANGED syncError
        /\ op' = "deleteNote"
        /\ UNCHANGED <<draft, filter, authUserId, saving, scan, version, table, clock, storage, ocrRuns>>

\* onAuthStateChange with another user of a set or none, and the effect on
\* [authUserId]: loadNotes up to its await.
SessionChange(users) ==
    /\ version = "cloud"
    /\ \E user \in (users \cup {Null}) \ {authUserId} :
          /\ authUserId' = user
          /\ IF user = Null
             THEN UNCHANGED <<reqs, syncError>>
             ELSE /\ Cardinality(reqs) < MaxInFlight
                  /\ reqs' = reqs \cup { LoadRequest(user) }
                  /\ syncError' = Null
    /\ op' = "onAuthStateChange"
    /\ out' = Did("session")
    /\ UNCHANGED <<notes, draft, filter, saving, scan, version, table, clock, storage, ocrRuns>>

AuthStateChange == SessionChange(Users)

\* loadNotes after its await.
LoadNotesDone ==
    \E r \in reqs :
        /\ r.kind = "load"
        /\ r.phase = "answered"
        /\ reqs' = reqs \ {r}
        /\ IF r.error
           THEN /\ syncError' = LoadFailed
                /\ out' = Did("failed")
                /\ UNCHANGED notes
           ELSE /\ notes' = Mapped(r.data)
                /\ out' = Did("loaded")
                /\ UNCHANGED syncError
        /\ op' = "loadNotes"
        /\ UNCHANGED <<draft, filter, authUserId, saving, scan, version, table, clock, storage, ocrRuns>>

\* The backend refuses a request.
BackendRefuses ==
    \E r \in reqs :
        /\ r.phase = "sent"
        /\ reqs' = (reqs \ {r}) \cup { Refused(r) }
        /\ op' = "backend"
        /\ out' = Did("refused")
        /\ UNCHANGED <<notes, page, version, table, clock, storage, ocrRuns>>

\* The backend serves a request; an insert is answered with the id of its
\* row, or with no row.
BackendServes ==
    \E r \in reqs :
        /\ r.phase = "sent"
        /\ CASE r.kind = "load" ->
                  /\ reqs' = (reqs \ {r}) \cup { Answered(r, Selected(table, r.user)) }
                  /\ UNCHANGED table
             [] r.kind = "update" ->
                  /\ reqs' = (reqs \ {r}) \cup { Answered(r, <<>>) }
                  /\ table' = RowsUpdated(table, r.id, r.payload)
             [] r.kind = "insert" ->
                  /\ \E data \in { <<>>, <<[id |-> RowId(r.payload)]>> } :
                        reqs' = (reqs \ {r}) \cup { Answered(r, data) }
                  /\ table' = Inserted(table, r.payload)
             [] r.kind = "delete" ->
                  /\ reqs' = (reqs \ {r}) \cup { Answered(r, <<>>) }
                  /\ table' = RowsDeleted(table, r.id)
        /\ op' = "backend"
        /\ out' = Did("served")
        /\ UNCHANGED <<notes, page, version, clock, storage, ocrRuns>>

\* The page of the local version is opened on the stored value raw: the
\* state starts over and the mount effects load and store the collection.
MountOn(raw) ==
    /\ version = "local"
    /\ notes' = IF raw = Null \/ raw = <<>> THEN <<>> ELSE Stored(raw)
    /\ draft' = EmptyDraft
    /\ filter' = AllFilter
    /\ sourceImageFile' = Null
    /\ ocrStatus' = "idle"
    /\ ocrError' = Null
    /\ ocrRuns' = {}
    /\ storage' = Persisted(notes')
    /\ op' = "mount"
    /\ out' = [kind |-> "mounted", raw |-> raw]
    /\ UNCHANGED <<authUserId, saving, syncError, version, table, reqs, clock>>

\* The page is opened again on what it stored.
Mount == MountOn(storage)

Next ==
    \/ EditDraft
    \/ ResetDraft
    \/ LoadNote
    \/ SaveNoteReturn
    \/ SaveNoteLocal
    \/ SaveNoteSend
    \/ SaveNoteUpdated
    \/ SaveNoteInserted
    \/ DeleteNoteLocal
    \/ DeleteNoteSend
    \/ DeleteNoteDone
    \/ AuthStateChange
    \/ LoadNotesDone
    \/ BackendRefuses
    \/ BackendServes
    \/ Mount

Spec == Init /\ [][Next]_vars

----------------------------------------------------------------------------
(* Specification: two users of one device *)

\* The cloud version opened on a device two users share; each has a row of
\* an earlier session in the table.
InitSession ==
    /\ version = "cloud"
    /\ notes = <<>>
    /\ draft = EmptyDraft
    /\ filter = AllFilter
    /\ authUserId = Null
    /\ saving = FALSE
    /\ syncError = Null
    /\ table = { EarlierRow(u) : u \in Users } \cup { OtherRow(u) : u \in TwoUsers \ Users }
    /\ reqs = {}
    /\ clock = 0
    /\ storage = Null
    /\ sourceImageFile = Null
    /\ ocrStatus = "idle"
    /\ ocrError = Null
    /\ ocrRuns = {}
    /\ op = "none"
    /\ out = NoOutput

\* onAuthStateChange on the shared device.
SwitchUser == SessionChange(TwoUsers)

NextSession ==
    \/ SwitchUser
    \/ LoadNotesDone
    \/ EditDraft
    \/ SaveNoteSend
    \/ SaveNoteInserted
    \/ BackendRefuses
    \/ BackendServes

SpecSession == InitSession /\ [][NextSession]_vars

----------------------------------------------------------------------------
(* Specification: the collection in localStorage *)

\* Longest collection stored by earlier sessions.
MaxStoredNotes == 1

\* Collections the local version saved in earlier sessions, from second 50
\* on: any title and topic, a text that is not blank, ids of randomUUID.
StoredCollections ==
    UNION { { [i \in 1..n |->
                 [id |-> randomUUID(50 + i), title |-> f[i][1],
                  topic |-> f[i][3].topic, text |-> f[i][2],
                  sourceImage |-> f[i][3].sourceImage,
                  createdAt |-> toISOString(50 + i)]]
              : f \in [1..n -> FieldChoices
                                \X { <<"a", ",", QUOTE>>, <<QUOTE, "\n", BACKSLASH>> }
                                \X TagChoices] }
            : n \in 0..MaxStoredNotes }

\* Values under STORAGE_KEY that are no JSON text: cut short, or no JSON at
\* all.
BrokenTexts ==
    { <<"[", "{">>, <<"[", "{", QUOTE, "i", "d", QUOTE, ":">>, <<"n", "o">> }

\* The local version opened on a collection of earlier sessions, after its
\* mount effects.
InitStorage ==
    /\ version = "local"
    /\ notes \in StoredCollections
    /\ draft = EmptyDraft
    /\ filter = AllFilter
    /\ authUserId = Null
    /\ saving = FALSE
    /\ syncError = Null
    /\ table = {}
    /\ reqs = {}
    /\ clock = 0
    /\ storage = StoredText(notes)
    /\ sourceImageFile = Null
    /\ ocrStatus = "idle"
    /\ ocrError = Null
    /\ ocrRuns = {}
    /\ op = "none"
    /\ out = NoOutput

\* The page is opened again after another writer left no value, the empty
\* string or a broken text under STORAGE_KEY.
MountForeign == \E raw \in {Null, <<>>} \cup BrokenTexts : MountOn(raw)

NextStorage ==
    \/ EditDraft
    \/ LoadNote
    \/ SaveNoteLocal
    \/ DeleteNoteLocal
    \/ Mount
    \/ MountForeign

SpecStorage == InitStorage /\ [][NextStorage]_vars

----------------------------------------------------------------------------
(* Recognition of the picked image *)

\* Recognitions in flight at a time.
MaxOcrRuns == 2

\* 'نسخة أولية من النص بعد OCR. يمكنك تصحيحها هنا...', the text
\* handleImagePick puts into an empty text field.
OcrDraftText == <<"U+0646", "U+0633", "U+062E", "U+0629", " ", "U+0623", "U+0648", "U+0644", "U+064A", "U+0629", " ", "U+0645", "U+0646", " ", "U+0627", "U+0644", "U+0646", "U+0635", " ", "U+0628", "U+0639", "U+062F", " ", "O", "C", "R", ".", " ", "U+064A", "U+0645", "U+0643", "U+0646", "U+0643", " ", "U+062A", "U+0635", "U+062D", "U+064A", "U+062D", "U+0647", "U+0627", " ", "U+0647", "U+0646", "U+0627", ".", ".", ".">>

\* 'تعذر قراءة الصورة'
ReadFailed == <<"U+062A", "U+0639", "U+0630", "U+0631", " ", "U+0642", "U+0631", "U+0627", "U+0621", "U+0629", " ", "U+0627", "U+0644", "U+0635", "U+0648", "U+0631", "U+0629">>

\* 'لم يتم العثور على نص واضح في الصورة'
NoTextFound == <<"U+0644", "U+0645", " ", "U+064A", "U+062A", "U+0645", " ", "U+0627", "U+0644", "U+0639", "U+062B", "U+0648", "U+0631", " ", "U+0639", "U+0644", "U+0649", " ", "U+0646", "U+0635", " ", "U+0648", "U+0627", "U+0636", "U+062D", " ", "U+0641", "U+064A", " ", "U+0627", "U+0644", "U+0635", "U+0648", "U+0631", "U+0629">>

\* 'فائدة جديدة'
NewNoteTitle == <<"U+0641", "U+0627", "U+0626", "U+062F", "U+0629", " ", "U+062C", "U+062F", "U+064A", "U+062F", "U+0629">>

\* The longest first line taken whole as a title.
MaxTitleLength == 60

\* The topics generateTopicSuggestion knows, each with its keywords, in the
\* order of its tests: 'تربية', 'إيمانيات', 'علم', 'صحة', 'إدارة'.
TopicKeywords ==
    << [label |-> <<"U+062A", "U+0631", "U+0628", "U+064A", "U+0629">>,
        words |-> { <<"U+062A", "U+0631", "U+0628", "U+064A", "U+0629">>,
                    <<"U+0623", "U+0628", "U+0646", "U+0627", "U+0621">>,
                    <<"U+062A", "U+0639", "U+0644", "U+064A", "U+0645">> }],
       [label |-> <<"U+0625", "U+064A", "U+0645", "U+0627", "U+0646", "U+064A", "U+0627", "U+062A">>,
        words |-> { <<"U+0625", "U+064A", "U+0645", "U+0627", "U+0646">>,
                    <<"U+0639", "U+0628", "U+0627", "U+062F", "U+0629">>,
                    <<"U+0642", "U+0631", "U+0622", "U+0646">> }],
       [label |-> <<"U+0639", "U+0644", "U+0645">>,
        words |-> { <<"U+0639", "U+0644", "U+0645">>,
                    <<"U+0645", "U+0639", "U+0631", "U+0641", "U+0629">>,
                    <<"U+0628", "U+062D", "U+062B">> }],
       [label |-> <<"U+0635", "U+062D", "U+0629">>,
        words |-> { <<"U+0635", "U+062D", "U+0629">>,
                    <<"U+0628", "U+062F", "U+0646">>,
                    <<"U+063A", "U+0630", "U+0627", "U+0621">> }],
       [label |-> <<"U+0625", "U+062F", "U+0627", "U+0631", "U+0629">>,
        words |-> { <<"U+0625", "U+062F", "U+0627", "U+0631", "U+0629">>,
                    <<"U+0639", "U+0645", "U+0644">>,
                    <<"U+0642", "U+064A", "U+0627", "U+062F", "U+0629">> }] >>

\* value.toLowerCase(): the Arabic letters have no case.
toLowerCase(value) ==
    LET upper == <<"A", "B", "C", "D", "E", "F", "G", "H", "I", "J", "K", "L", "M",
                   "N", "O", "P", "Q", "R", "S", "T", "U", "V", "W", "X", "Y", "Z">>
        lower == <<"a", "b", "c", "d", "e", "f", "g", "h", "i", "j", "k", "l", "m",
                   "n", "o", "p", "q", "r", "s", "t", "u", "v", "w", "x", "y", "z">>
    IN  [i \in 1..Len(value) |->
            IF \E k \in 1..Len(upper) : upper[k] = value[i]
            THEN lower[CHOOSE k \in 1..Len(upper) : upper[k] = value[i]]
            ELSE value[i]]

\* value.includes(word)
Includes(value, word) ==
    \E i \in 0..(Len(value) - Len(word)) : SubSeq(value, i + 1, i + Len(word)) = word

\* The first line of the text that is not blank, trimmed.
generateTitleSuggestion(value) ==
    LET lines == SplitLines(value)
        full  == { k \in 1..Len(lines) : Trim(lines[k]) # <<>> }
    IN  IF full = {} THEN NewNoteTitle
        ELSE LET firstLine == Trim(lines[CHOOSE k \in full : \A j \in full : k <= j])
             IN  IF Len(firstLine) > MaxTitleLength
                 THEN SubSeq(firstLine, 1, MaxTitleLength) \o <<".", ".", ".">>
                 ELSE firstLine

\* The first topic one of whose keywords the text holds, else 'غير مصنف'.
generateTopicSuggestion(value) ==
    LET lower == toLowerCase(value)
        hits  == { k \in 1..Len(TopicKeywords) :
                       \E w \in TopicKeywords[k].words : Includes(lower, w) }
    IN  IF hits = {} THEN FallbackLabel
        ELSE TopicKeywords[CHOOSE k \in hits : \A j \in hits : k <= j].label

\* The images the user picks, by file name: a page about 'علم', a page of
\* plain text, a blank page and a file that cannot be read.
Images == { <<"a">>, <<"b">>, <<"c">>, <<"d">> }

\* fileToBase64 resolves.
Readable(file) == file # <<"d">>

\* data.text of the recognition of a readable image.
Recognized(file) ==
    CASE file = <<"a">> -> <<" ", "U+0639", "U+0644", "U+0645", "\n", "x", " ">>
      [] file = <<"b">> -> <<"B", "\n">>
      [] OTHER -> <<" ", "\n">>

\* The recognition started for a file by the render that holds the form d.
RunOf(file, d) == [file |-> file, title |-> d.title, topic |-> d.topic]

\* The recognition of run.file throws.
Throws(run) == ~Readable(run.file) \/ Trim(Recognized(run.file)) = <<>>

\* The message of the error it throws.
MessageOf(run) == IF ~Readable(run.file) THEN ReadFailed ELSE NoTextFound

\* The form after the try block of a recognition that did not throw.  The
\* local version has no recognition.
RecognizedDraft(d, run) ==
    LET cleaned == Trim(Recognized(run.file))
    IN  IF version = "cloud"
        THEN [d EXCEPT !.text = cleaned,
                       !.title = IF Trim(run.title) = <<>>
                                 THEN generateTitleSuggestion(cleaned) ELSE @,
                       !.topic = IF Trim(run.topic) = <<>>
                                 THEN generateTopicSuggestion(cleaned) ELSE @]
        ELSE [d EXCEPT !.text = cleaned]

\* The form after handleImagePick.
PickedDraft(d, file) ==
    [d EXCEPT !.sourceImage = file,
              !.text = IF Trim(d.text) = <<>> THEN OcrDraftText ELSE @]

\* handleImagePick: the cloud version goes on to runOcrWithFile, up to its
\* first await.
HandleImagePick ==
    /\ isAuthenticated
    /\ \E file \in Images :
          /\ draft' = PickedDraft(draft, file)
          /\ IF version = "local"
             THEN /\ out' = Did("picked")
                  /\ UNCHANGED <<scan, ocrRuns>>
             ELSE /\ sourceImageFile' = file
                  /\ ocrError' = Null
                  /\ IF version = "cloud"
                     THEN /\ Cardinality(ocrRuns) < MaxOcrRuns
                          /\ ocrStatus' = "loading"
                          /\ ocrRuns' = ocrRuns \cup { RunOf(file, draft) }
                          /\ out' = Did("requested")
                     ELSE /\ ocrStatus' = "idle"
                          /\ out' = Did("picked")
                          /\ UNCHANGED ocrRuns
    /\ op' = "handleImagePick"
    /\ UNCHANGED <<notes, filter, authUserId, saving, syncError, version, table, reqs,
                   clock, storage>>

\* runOcr from its button, up to its first await.
RunOcr ==
    /\ isAuthenticated
    /\ version # "local"
    /\ sourceImageFile # Null
    /\ ocrStatus # "loading"
    /\ Cardinality(ocrRuns) < MaxOcrRuns
    /\ ocrStatus' = "loading"
    /\ ocrError' = Null
    /\ ocrRuns' = ocrRuns \cup { RunOf(sourceImageFile, draft) }
    /\ op' = "runOcr"
    /\ out' = Did("requested")
    /\ UNCHANGED <<notes, draft, filter, authUserId, saving, syncError, sourceImageFile,
                   version, table, reqs, clock, storage>>

\* runOcrWithFile, and runOcr of the proxied version, after the awaits.
RunOcrDone ==
    \E run \in ocrRuns :
        /\ ocrRuns' = ocrRuns \ {run}
        /\ IF Throws(run)
           THEN /\ ocrError' = MessageOf(run)
                /\ ocrStatus' = "error"
                /\ out' = Did("failed")
                /\ UNCHANGED draft
           ELSE /\ draft' = RecognizedDraft(draft, run)
                /\ ocrStatus' = "success"
                /\ out' = Did("recognized")
                /\ UNCHANGED ocrError
        /\ op' = "runOcr"
        /\ UNCHANGED <<notes, filter, authUserId, saving, syncError, sourceImageFile,
                       version, table, reqs, clock, storage>>

\* The capture and edit panels of the three versions, of a signed-in user
\* where there are users.
InitOcr ==
    /\ version \in {"local", "proxied", "cloud"}
    /\ notes = <<>>
    /\ draft = EmptyDraft
    /\ filter = AllFilter
    /\ authUserId \in IF version = "local" THEN {Null} ELSE Users
    /\ saving = FALSE
    /\ syncError = Null
    /\ table = {}
    /\ reqs = {}
    /\ clock = 0
    /\ storage = IF version = "local" THEN StoredText(<<>>) ELSE Null
    /\ sourceImageFile = Null
    /\ ocrStatus = "idle"
    /\ ocrError = Null
    /\ ocrRuns = {}
    /\ op = "none"
    /\ out = NoOutput

NextOcr ==
    \/ HandleImagePick
    \/ RunOcr
    \/ RunOcrDone
    \/ EditDraft
    \/ ResetDraft

SpecOcr == InitOcr /\ [][NextOcr]_vars

----------------------------------------------------------------------------
(* Properties of the collection *)

\* A string of white space only.
IsBlank(s) == \A i \in 1..Len(s) : s[i] \in WhiteSpace

\* C12: in every reachable state, whether the collection was loaded from
\* localStorage or the table or changed by a save, an update or a delete,
\* the text of every note has a character that is no white space.
C12_TextNeverBlank == \A i \in 1..Len(notes) : ~IsBlank(notes[i].text)

\* C12 witness: the local version opened again on a stored collection of two
\* notes, one of them updated with a padded text.
C12_Witness ==
    /\ op = "mount"
    /\ Len(notes) = 2
    /\ \E i \in 1..2 : notes[i].text = <<"x", " ">>

\* C13: no two notes of the collection have the same id, whatever the order
\* in which the response of loadNotes and the completion of an insert of
\* saveNote arrive, and also when the response of the insert carries no id
\* and crypto.randomUUID() names the note.
C13_IdsDistinct ==
    \A i, j \in 1..Len(notes) : notes[i].id = notes[j].id => i = j

\* The ISO timestamp a is later than b: at the first place they differ, a
\* has the greater digit.
Later(a, b) ==
    \E k \in 1..Len(a) :
        /\ \A m \in 1..(k - 1) : a[m] = b[m]
        /\ IsDigit(a[k]) /\ IsDigit(b[k])
        /\ DigitVal(a[k]) > DigitVal(b[k])

\* C14: in every reachable state the collection is ordered newest first by
\* createdAt: no note is later than a note before it.  Create, update
\* (which refreshes createdAt) and delete keep the order.
C14_NewestFirst ==
    \A i, j \in 1..Len(notes) : i < j => ~Later(notes[j].createdAt, notes[i].createdAt)

\* C15: every note saveNote writes, on its create and on its update path,
\* has a title and a topic that are not blank: a blank title is saved as
\* 'مقتطف بلا عنوان' and a blank topic as 'غير مصنف'.
C15_TitleAndTopicNeverBlank ==
    \A i \in 1..Len(notes) : ~IsBlank(notes[i].title) /\ ~IsBlank(notes[i].topic)

----------------------------------------------------------------------------
(* Properties of saveNote and deleteNote *)

\* A step that is a call of saveNote: it ends at the guard, at the await of
\* the cloud version, or at the end of the local version.
SaveNoteCalled ==
    /\ op' = "saveNote"
    /\ vars' # vars
    /\ \/ out'.kind \in {"returned", "requested"}
       \/ version = "local"

\* C16 as stated: saveNote goes on to persist exactly when the text of the
\* form is not blank, and when it is blank it changes neither the collection
\* nor the form and sends no request.
C16_ReturnsIffTextBlank ==
    [][SaveNoteCalled =>
          /\ out'.kind = "returned" <=> IsBlank(draft.text)
          /\ out'.kind = "returned" => UNCHANGED <<notes, draft, reqs>>]_vars

\* C16 amended: saveNote goes on exactly when the text of the form is not
\* blank and, in the cloud version, a user is signed in; a blank title or
\* topic never blocks it.  Going on, the local version runs its create or
\* update path and clears the form; the cloud version sends exactly one
\* insert or update request and leaves the collection and the form as they
\* are until the answer, and for good when the answer is an error.
\* Otherwise saveNote changes neither the collection nor the form nor what
\* is stored, and sends no request.
C16_SaveGuard ==
    [][/\ SaveNoteCalled =>
             /\ out'.kind = "returned" <=>
                    IsBlank(draft.text) \/ (version = "cloud" /\ authUserId = Null)
             /\ out'.kind = "returned" =>
                    UNCHANGED <<notes, draft, reqs, table, storage>>
             /\ out'.kind # "returned" /\ version = "local" =>
                    /\ draft' = EmptyDraft
                    /\ draft.draftId = Null => Len(notes') = Len(notes) + 1
                    /\ draft.draftId # Null => Len(notes') = Len(notes)
             /\ out'.kind # "returned" /\ version = "cloud" =>
                    /\ UNCHANGED <<notes, draft, table>>
                    /\ \E r \in reqs' \ reqs :
                          /\ reqs' = reqs \cup {r}
                          /\ r.phase = "sent"
                          /\ r.kind = IF draft.draftId = Null THEN "insert" ELSE "update"
       /\ op' = "saveNote" /\ out'.kind = "failed" => UNCHANGED <<notes, draft, table>>]_vars

\* C16 witness: saveNote returned on a form of a signed-in user whose title
\* and topic are filled in and whose text is a space.
C16_Witness ==
    /\ op = "saveNote"
    /\ out.kind = "returned"
    /\ version = "cloud"
    /\ authUserId # Null
    /\ draft.text = <<" ">>
    /\ ~IsBlank(draft.title)

\* The step replaces, in place, the saved fields of the notes with the id
\* and leaves every other note as it is.
ReplacedInPlace(id, saved) ==
    /\ Len(notes') = Len(notes)
    /\ \A i \in 1..Len(notes) :
          /\ notes'[i].id = notes[i].id
          /\ notes[i].id = id =>
                /\ notes'[i].title = saved.title
                /\ notes'[i].topic = saved.topic
                /\ notes'[i].text = saved.text
                /\ notes'[i].createdAt = saved.createdAt
          /\ notes[i].id # id => notes'[i] = notes[i]

\* C17: a successful update keeps the length of the collection and the id
\* and the position of every note, gives the note of the form the saved
\* title, topic and text and the time of the save as createdAt, and leaves
\* every other note unchanged.  The saved values are the payload of the
\* request in the cloud version and the fields of the form in the local one.
C17_UpdateInPlace ==
    [][op' = "saveNote" /\ out'.kind = "updated" /\ vars' # vars =>
          IF version = "local"
          THEN ReplacedInPlace(draft.draftId,
                               [title |-> draft.title, topic |-> draft.topic,
                                text |-> draft.text,
                                createdAt |-> toISOString(clock + 1)])
          ELSE \E r \in reqs \ reqs' :
                  /\ r.kind = "update"
                  /\ ~r.error
                  /\ ReplacedInPlace(r.id,
                                     [title |-> r.payload.title,
                                      topic |-> r.payload.topic,
                                      text |-> r.payload.text,
                                      createdAt |-> r.payload.created_at])]_vars

\* C17 witness: an update of the second of two notes, which is now the
\* later one.
C17_Witness ==
    /\ op = "saveNote"
    /\ out.kind = "updated"
    /\ Len(notes) = 2
    /\ Later(notes[2].createdAt, notes[1].createdAt)

\* The step removes the notes with the id and nothing else: every other
\* note is kept, unchanged, at its place among the others.
RemovedExactly(id) ==
    LET kept == {i \in 1..Len(notes) : notes[i].id # id}
    IN  /\ Len(notes') = Cardinality(kept)
        /\ \A i \in kept : notes'[Cardinality({j \in kept : j <= i})] = notes[i]

\* C18: a successful deleteNote(id) removes exactly the notes with the id:
\* the others stay in the collection, unchanged and in their order.  The id
\* is the one of the answered request in the cloud version and the id of a
\* note of the collection in the local one.
C18_DeleteRemovesId ==
    [][op' = "deleteNote" /\ out'.kind = "deleted" /\ vars' # vars =>
          IF version = "local"
          THEN \E i \in 1..Len(notes) : RemovedExactly(notes[i].id)
          ELSE \E r \in reqs \ reqs' :
                  r.kind = "delete" /\ ~r.error /\ RemovedExactly(r.id)]_vars

\* C18 witness: of three notes the middle one deleted.
C18_Witness ==
    /\ op = "deleteNote"
    /\ out.kind = "deleted"
    /\ Len(notes) = 2
    /\ notes[1].id = randomUUID(3)
    /\ notes[2].id = randomUUID(1)

----------------------------------------------------------------------------
(* Properties of the exports as handlers of the notes page *)

\* C19: every export leaves the collection, each note of it, the fields of
\* the form and the filter unchanged.
C19_ExportsChangeNothing ==
    [][op' \in ExportOps => notes' = notes /\ draft' = draft /\ filter' = filter]_vars

\* C19 witness: a JSON export of two notes or more, with a form filled in
\* and a topic chosen as filter.
C19_Witness ==
    /\ op = "exportJson"
    /\ Len(notes) >= 2
    /\ draft # EmptyDraft
    /\ filter # AllFilter

\* What an export hands out for a collection, whatever else the page shows.
ExportOf(handler, ns) ==
    CASE handler = "groupNotes" -> GroupedOutput(ns)
      [] handler = "exportTxt" -> exportTxt(ns)
      [] handler = "exportCsv" -> exportCsv(ns)
      [] handler = "exportJson" -> exportJson(ns)
      [] handler = "exportPdf" -> exportPdf(ns)
      [] handler = "exportDocx" -> exportDocx(ns)

\* C20: what an export hands out depends on the collection only: it is the
\* export of the whole collection for every filter and every form.
C20_OutputFromNotesOnly == op \in ExportOps => out = ExportOf(op, notes)

\* C20 witness: a CSV export while the filter shows some notes and hides
\* others and the form is filled in.
C20_Witness ==
    /\ op = "exportCsv"
    /\ filter # AllFilter
    /\ Len(filteredNotes(notes, filter)) \in 1..(Len(notes) - 1)
    /\ draft # EmptyDraft

----------------------------------------------------------------------------
(* Properties of the backend failures *)

----------------------------------------------------------------------------
(* Properties of the session *)

\* The note is the note of a row of the table that belongs to another user
\* than the one signed in, or to some user when none is signed in.
OfAnotherUser(note) ==
    \E r \in table : r.id = note.id /\ r.user_id # authUserId

\* C22: the collection only ever holds notes of the user signed in: after a
\* logout or a switch of users no note loaded or saved for the earlier user
\* is in the collection, also when the earlier user's response of loadNotes
\* arrives late or the request of the new user fails.
C22_OnlyOwnNotes == \A i \in 1..Len(notes) : ~OfAnotherUser(notes[i])

\* The note is saved: its row is in the table under the user signed in.
IsSaved(note) ==
    \E r \in table : r.id = note.id /\ r.user_id = authUserId

\* C23: a note whose insert succeeded stays in the collection until it is
\* deleted: while its user is signed in, no response of loadNotes for that
\* user takes a saved note out of the collection, however the response and
\* the completion of the insert interleave.
C23_SavedNoteStays ==
    [][op' = "loadNotes" /\ (\E r \in reqs \ reqs' : r.user = authUserId) =>
          \A i \in 1..Len(notes) :
              IsSaved(notes[i]) => \E j \in 1..Len(notes') : notes'[j].id = notes[i].id]_vars

\* The text of the form a completing saveNote saves: the text of the form
\* in the local version, the text of the payload of its request in the
\* cloud version.
SavedText ==
    IF version = "local" THEN draft.text
    ELSE (CHOOSE r \in reqs \ reqs' : TRUE).payload.text

\* C24: whenever saveNote completes successfully, the collection afterwards
\* holds a note with the text of the form, trimmed; also when the form was
\* opened with loadNote and the note it was opened from was deleted before
\* the save.
C24_SavedTextIsKept ==
    [][op' = "saveNote" /\ out'.kind \in {"created", "updated"} =>
          \E i \in 1..Len(notes') : Trim(notes'[i].text) = Trim(SavedText)]_vars

----------------------------------------------------------------------------
(* Properties of the recognition *)

\* C25: in every reachable state ocrError is set exactly when ocrStatus is
\* 'error', however image picks, runs of runOcr, resetDraft and the ends of
\* overlapping recognitions interleave.
C25_ErrorIffStatusError == ocrError # Null <=> ocrStatus = "error"

\* C26: when recognitions overlap in the cloud version, once all of them
\* have ended the text of the form is the recognized text of the image
\* picked last, in whatever order they ended.
C26_TextOfLastPick ==
    /\ version = "cloud"
    /\ op = "runOcr"
    /\ out.kind = "recognized"
    /\ ocrRuns = {}
    /\ sourceImageFile # Null
    /\ ~Throws(RunOf(sourceImageFile, draft))
    => draft.text = Trim(Recognized(sourceImageFile))

\* C27: a recognition that succeeds replaces the title, and the topic, of
\* the form only if it is blank when the recognition ends: a title or topic
\* typed while the recognition was in flight stays.
C27_TypedTitleAndTopicStay ==
    [][op' = "runOcr" /\ out'.kind = "recognized" =>
          /\ ~IsBlank(draft.title) => draft'.title = draft.title
          /\ ~IsBlank(draft.topic) => draft'.topic = draft.topic]_vars

----------------------------------------------------------------------------
(* Properties of the saving flag *)

\* The requests of saveNote in flight.
SaveRequests == { r \in reqs : r.kind \in {"insert", "update"} }

\* The backend answers the request of saveNote.
AnswersSave ==
    /\ BackendRefuses \/ BackendServes
    /\ \E r \in SaveRequests : r.phase = "sent" /\ r \notin reqs'

\* The application with a backend that answers every request of saveNote
\* and an event loop that runs the rest of saveNote after the answer.
FairSpec ==
    /\ Spec
    /\ WF_vars(AnswersSave)
    /\ WF_vars(SaveNoteUpdated \/ SaveNoteInserted)

----------------------------------------------------------------------------
(* Properties of localStorage *)

\* C29: in the local version, after any sequence of save, update and delete
\* the value under 'notes_book_app_v1' is JSON.stringify of the collection;
\* the page opened again on that value restores the collection; opened on a
\* value that is no JSON text it starts with the empty collection.
C29_StorageMirrorsNotes ==
    /\ [](storage = StoredText(notes))
    /\ [][op' = "mount" /\ out'.raw = storage => notes' = notes]_vars
    /\ [][op' = "mount" /\ out'.raw \in BrokenTexts => notes' = <<>>]_vars

\* C29 witness: the page opened again on the stored text of two notes, one
\* with a double quote, a newline and a backslash in its text and one saved
\* in this session, and restored them.
C29_Witness ==
    /\ op = "mount"
    /\ out.raw = storage
    /\ Len(notes) = 2
    /\ notes[1].id = randomUUID(1)
    /\ notes[2].text = <<QUOTE, "\n", BACKSLASH>>

====
